---- MODULE Spec2Model ----
(***************************************************************************)
(* ShowPlot backend (server.js): session-authenticated plot and feedback   *)
(* routes, and the unauthenticated admin routes that maintain the asset    *)
(* library and its taxonomy document.                                      *)
(*                                                                         *)
(* The Express server is single-threaded: a handler runs without           *)
(* interruption up to each `await` of a database call, and every database  *)
(* call (findOne, findOneAndUpdate, create, save) is one atomic operation  *)
(* on one document.  Each action below is therefore one such segment of a  *)
(* handler: the code up to and including the database call it awaits.      *)
(*                                                                         *)
(* Strings are sequences of characters, so that String.prototype.trim is   *)
(* modelled by what it does.                                               *)
(***************************************************************************)
EXTENDS Integers, Sequences, FiniteSets, TLC

VARIABLES
    users,      \* User collection: set of [_id, googleSub]
    nextUid,    \* next fresh User _id; a session token was signed for every smaller id
    plots,      \* StagePlot collection: set of [_id, userId, name, state]
    feedback,   \* Feedback collection, in insertion order
    reqs,       \* per connection: the request in flight on /api/plots, /api/feedback
    resp,       \* the response the last step sent on those routes (NoResp: it sent none)
    taxonomies, \* Taxonomy collection, in natural (insertion) order
    assets,     \* Asset collection: set of [_id, category, section, fileId]
    nextAsset,  \* next fresh Asset _id
    files,      \* GridFS bucket 'assets': set of [_id, contentType]
    nextFile,   \* next fresh GridFS file id
    adm,        \* per connection: the admin request in flight
    admResp,    \* the response the last step sent on the admin routes
    env,        \* process.env as read at start-up: which secrets are set
    auth,       \* per connection: the POST /api/auth/google request in flight
    authResp,   \* the response the last step sent on POST /api/auth/google
    corsOrigin, \* process.env.CORS_ORIGIN
    dbReady,    \* isDbReady(): the database is connected and the bucket is set
    http,       \* the last request received: its Origin, and how far it got
    handled,    \* number of requests that reached a route handler
    backendOrigin, \* process.env.BACKEND_ORIGIN of the Vercel function
    px,         \* the request the Vercel function is handling
    up,         \* the call it made to the upstream for that request (NoCall: none)
    pxRes,      \* the responses it has sent for that request, in order
    nodesHistory, \* the editor's useHistoryState: [past, present, future] of node lists
    edits,      \* number of arrays the editor has created (each one a new reference)
    undos,      \* number of undo actions that changed the history
    ed,         \* the editor's save and load: the call in flight, the plot ids it holds
    stateCast,  \* how Mongoose reads the element declaration of stagePlotSchema.state
    readyState, \* mongoose.connection.readyState: 0 disconnected, 1 connected, 2 connecting
    bucket,     \* the GridFS bucket is set (FALSE: null)
    conn,       \* connectWithRetry: calls awaiting mongoose.connect, timers pending
    reachable,  \* the MongoDB deployment can be reached
    selectedId, \* the editor's selectedId (0: null)
    gesture,    \* the editor's touchGestureRef.current
    png         \* detectPngHasAlpha: the buffer, the chunk offset, what it returned

vars == <<users, nextUid, plots, feedback, reqs, resp,
          taxonomies, assets, nextAsset, files, nextFile, adm, admResp,
          env, auth, authResp, corsOrigin, dbReady, http, handled,
          backendOrigin, px, up, pxRes,
          nodesHistory, edits, undos, ed, stateCast,
          readyState, bucket, conn, reachable, selectedId, gesture, png>>

plotVars == <<users, nextUid, plots, feedback, reqs, resp>>
taxVars == <<taxonomies, assets, nextAsset, files, nextFile, adm, admResp>>

\* What the plot routes, and what the admin routes, leave alone.
authVars == <<env, auth, authResp>>
corsVars == <<corsOrigin, dbReady, http, handled>>
proxyVars == <<backendOrigin, px, up, pxRes>>
editorVars == <<nodesHistory, edits, undos, ed, stateCast>>
startVars == <<readyState, bucket, conn, reachable>>
canvasVars == <<selectedId, gesture>>
pngVars == <<png>>
clientVars == <<proxyVars, editorVars, canvasVars>>
nonPlotVars == <<taxVars, authVars, corsVars, clientVars, startVars, pngVars>>
nonTaxVars == <<plotVars, authVars, corsVars, clientVars, startVars, pngVars>>
nonAuthVars == <<plots, feedback, reqs, resp, taxVars, corsVars, clientVars, startVars,
                 pngVars>>
appVars == <<plotVars, taxVars, authVars, clientVars, pngVars>>
nonCorsVars == <<appVars, startVars>>
serverVars == <<plotVars, taxVars, authVars, corsVars, editorVars, canvasVars, startVars,
                pngVars>>
serverNoEditor == <<plotVars, taxVars, authVars, corsVars, proxyVars, startVars, pngVars>>

----------------------------------------------------------------------------
(* Bounds *)

MaxUsers == 2       \* User records ever created
MaxPlots == 2       \* StagePlot records ever created
MaxFeedback == 1    \* Feedback records ever created
MaxConns == 2       \* requests in flight at once
MaxAssets == 1      \* Asset records ever created
MaxHandled == 2     \* requests that get past the CORS check and the readiness gate

UserIds == 1..MaxUsers
PlotIds == 1..MaxPlots
Conns == 1..MaxConns

GoogleSubs == {"g1", "g2"}

----------------------------------------------------------------------------
(* Strings *)

SP == " "

RECURSIVE trimStart(_)
trimStart(s) ==
    IF s # <<>> /\ Head(s) = SP THEN trimStart(Tail(s)) ELSE s

RECURSIVE trimEnd(_)
trimEnd(s) ==
    IF s # <<>> /\ s[Len(s)] = SP THEN trimEnd(SubSeq(s, 1, Len(s) - 1)) ELSE s

\* String.prototype.trim
trim(s) == trimEnd(trimStart(s))

Empty == <<>>
Untitled == <<"Untitled">>

----------------------------------------------------------------------------
(* Session tokens *)

\* What a request may carry as the sp_session cookie or after "Bearer ":
\* nothing, a token jwt.verify rejects (forged, expired, malformed), or a
\* token the server signed for a user id at sign-in.
NoToken == [t |-> "none", uid |-> 0]
BadToken == [t |-> "bad", uid |-> 0]
Signed(u) == [t |-> "signed", uid |-> u]

Tokens == {NoToken, BadToken} \cup {Signed(u) : u \in 1..(nextUid - 1)}

\* The Authorization header read before the cookie.
getSessionTokenFromRequest_bearerFirst(cookie, bearer) ==
    IF bearer # NoToken THEN bearer
    ELSE IF cookie # NoToken THEN cookie
    ELSE NoToken

getSessionTokenFromRequest(cookie, bearer) ==
    IF cookie # NoToken THEN cookie
    ELSE IF bearer # NoToken THEN bearer
    ELSE NoToken

\* Decoding without verifying the signature: a forged token names user 1.
verifySessionToken_decodeOnly(token) ==
    IF token = NoToken THEN 0
    ELSE IF token.t = "signed" THEN token.uid
    ELSE 1

\* The uid of the verified payload, 0 when verification yields null.
verifySessionToken(token) ==
    IF token = NoToken THEN 0
    ELSE IF token.t = "signed" THEN token.uid
    ELSE 0

User_findById(us, uid) == {u \in us : u._id = uid}

----------------------------------------------------------------------------
(* Request bodies *)

\* req.body.state: Array.isArray decides whether it is used.
StateIn == {[isArray |-> FALSE, v |-> <<"n1">>],
            [isArray |-> TRUE, v |-> <<"n1">>]}

\* req.body.name, req.body.message: typeof === 'string' decides.
NameIn == {[isString |-> FALSE, v |-> <<"m">>],
           [isString |-> TRUE, v |-> <<"m", SP>>]}

MessageIn == {[isString |-> FALSE, v |-> <<"h">>],
              [isString |-> TRUE, v |-> <<SP>>],
              [isString |-> TRUE, v |-> <<"h", SP>>]}

\* req.body.plotId after `typeof === 'string' ? trim() : ''`, and req.params.id:
\* 0 is the empty string (absent, not a string, or blank), -1 a non-empty
\* string that mongoose.isValidObjectId rejects, n > 0 the object id n.
NoPlotId == 0
InvalidPlotId == -1
PlotIdIn == {NoPlotId, InvalidPlotId} \cup PlotIds

isValidObjectId(id) == id > 0

stateOf(b) == IF b.isArray THEN b.v ELSE <<>>
stringOf(b) == IF b.isString THEN trim(b.v) ELSE Empty

----------------------------------------------------------------------------
(* StagePlot collection *)

\* find({}) : the userId filter forgotten.
StagePlot_find_noFilter(ps, uid) == ps

StagePlot_find(ps, uid) == {p \in ps : p.userId = uid}

StagePlot_findOne(ps, id, uid) == {p \in ps : p._id = id /\ p.userId = uid}

\* The filter { _id } alone: the caller's id is not part of the query.
StagePlot_findOneAndUpdate_byIdOnly(ps, id, uid, st, nm) ==
    LET matched == {p \in ps : p._id = id}
        updated == {[p EXCEPT !.state = st, !.name = nm] : p \in matched}
    IN [updated |-> updated, plots |-> (ps \ matched) \cup updated]

\* The update { $set: { state, name, userId } }: the caller takes the plot over.
StagePlot_findOneAndUpdate_setOwner(ps, id, uid, st, nm) ==
    LET matched == {p \in ps : p._id = id}
        updated == {[p EXCEPT !.state = st, !.name = nm, !.userId = uid] : p \in matched}
    IN [updated |-> updated, plots |-> (ps \ matched) \cup updated]

\* { upsert: true }: a plot is inserted when the filter matches none.
StagePlot_findOneAndUpdate_upsert(ps, id, uid, st, nm) ==
    LET matched == {p \in ps : p._id = id /\ p.userId = uid}
        updated == IF matched = {}
                   THEN {[_id |-> Cardinality(ps) + 1, userId |-> uid, name |-> nm, state |-> st]}
                   ELSE {[p EXCEPT !.state = st, !.name = nm] : p \in matched}
    IN [updated |-> updated, plots |-> (ps \ matched) \cup updated]

\* A merge: a stored non-empty name is kept, only the state is replaced.
StagePlot_findOneAndUpdate_merge(ps, id, uid, st, nm) ==
    LET matched == {p \in ps : p._id = id /\ p.userId = uid}
        updated == {[p EXCEPT !.state = st, !.name = IF @ = Empty THEN nm ELSE @] : p \in matched}
    IN [updated |-> updated, plots |-> (ps \ matched) \cup updated]

\* findOneAndUpdate({ _id, userId }, { $set: { state, name } }, { new: true }):
\* one atomic operation; `updated` is what it returns (empty: null).
StagePlot_findOneAndUpdate(ps, id, uid, st, nm) ==
    LET matched == {p \in ps : p._id = id /\ p.userId = uid}
        updated == {[p EXCEPT !.state = st, !.name = nm] : p \in matched}
    IN [updated |-> updated, plots |-> (ps \ matched) \cup updated]

StagePlot_create(ps, uid, nm, st) ==
    ps \cup {[_id |-> Cardinality(ps) + 1, userId |-> uid, name |-> nm, state |-> st]}

\* p.name || 'Untitled'
nameOrUntitled(nm) == IF nm = Empty THEN Untitled ELSE nm

plotSummary(p) == [_id |-> p._id, name |-> nameOrUntitled(p.name)]

NoDoc == [_id |-> 0, name |-> Empty, state |-> <<>>]

----------------------------------------------------------------------------
(* Requests on /api/plots and /api/feedback *)

\* A connection is idle, or holds a request that requireAuth has passed on
\* (next()) with req.user set.
Idle == [pc |-> "idle", user |-> 0]

\* conn: the connection answered, recorded for an update of a plot (200).
\* raced: the step before this update was an update of the same plot on
\* another connection, so both requests were past requireAuth together.
\* name, state: what an applied save (200, 201) submitted.
NoResp == [kind |-> "none", status |-> 0, token |-> NoToken, user |-> 0,
           plotId |-> NoPlotId, name |-> Empty, state |-> <<>>,
           list |-> {}, doc |-> NoDoc, conn |-> 0, raced |-> FALSE]

Reply(kind, user, status) ==
    [NoResp EXCEPT !.kind = kind, !.user = user, !.status = status]

\* POST /api/auth/google, reduced to its effect on users and tokens:
\* upsert of the user keyed by googleSub, then a token signed for its _id.
AuthGoogle(sub) ==
    /\ IF \E u \in users : u.googleSub = sub
          THEN UNCHANGED <<users, nextUid>>
          ELSE /\ nextUid <= MaxUsers
               /\ users' = users \cup {[_id |-> nextUid, googleSub |-> sub]}
               /\ nextUid' = nextUid + 1
    /\ resp' = NoResp
    /\ UNCHANGED <<plots, feedback, reqs>>
    /\ UNCHANGED nonPlotVars

\* The User record a token names has gone from the database (removed outside
\* the server): the case requireAuth answers with clearSessionCookie and 401.
UserRemoved(u) ==
    /\ u \in users
    /\ users' = users \ {u}
    /\ resp' = NoResp
    /\ UNCHANGED <<nextUid, plots, feedback, reqs>>
    /\ UNCHANGED nonPlotVars

\* requireAuth, up to the answer of User.findById; the same middleware
\* guards the four routes.  Status 0: no answer, next() hands the request on.
RequireAuth(c, cookie, bearer) ==
    /\ reqs[c].pc = "idle"
    /\ LET token == getSessionTokenFromRequest(cookie, bearer)
           uid == verifySessionToken(token)
           user == User_findById(users, uid)
       IN IF uid = 0 \/ user = {}
          THEN /\ resp' = [Reply("requireAuth", 0, 401) EXCEPT !.token = token]
               /\ UNCHANGED reqs
          ELSE /\ reqs' = [reqs EXCEPT ![c] = [pc |-> "route", user |-> uid]]
               /\ resp' = [Reply("requireAuth", uid, 0) EXCEPT !.token = token]
    /\ UNCHANGED <<users, nextUid, plots, feedback>>
    /\ UNCHANGED nonPlotVars

\* GET /api/plots
GetPlots(c) ==
    /\ reqs[c].pc = "route"
    /\ resp' = [Reply("GET /api/plots", reqs[c].user, 200) EXCEPT
                   !.list = {plotSummary(p) : p \in StagePlot_find(plots, reqs[c].user)}]
    /\ reqs' = [reqs EXCEPT ![c] = Idle]
    /\ UNCHANGED <<users, nextUid, plots, feedback>>
    /\ UNCHANGED nonPlotVars

\* POST /api/plots
PostPlots(c, bstate, bname, plotId) ==
    /\ reqs[c].pc = "route"
    /\ LET state == stateOf(bstate)
           name == stringOf(bname)
           uid == reqs[c].user
           r == [Reply("POST /api/plots", uid, 0) EXCEPT !.plotId = plotId]
       IN IF plotId # NoPlotId
          THEN IF ~isValidObjectId(plotId)
               THEN /\ resp' = [r EXCEPT !.status = 400]
                    /\ reqs' = [reqs EXCEPT ![c] = Idle]
                    /\ UNCHANGED plots
               ELSE LET res == StagePlot_findOneAndUpdate(plots, plotId, uid, state, name)
                    IN IF res.updated = {}
                       THEN /\ resp' = [r EXCEPT !.status = 404]
                            /\ reqs' = [reqs EXCEPT ![c] = Idle]
                            /\ plots' = res.plots
                       ELSE /\ resp' = [r EXCEPT
                                          !.status = 200,
                                          !.name = name, !.state = state,
                                          !.doc = [NoDoc EXCEPT !._id = plotId],
                                          !.conn = c,
                                          !.raced = /\ resp.kind = "POST /api/plots"
                                                    /\ resp.status = 200
                                                    /\ resp.plotId = plotId
                                                    /\ resp.conn # c]
                            /\ reqs' = [reqs EXCEPT ![c] = Idle]
                            /\ plots' = res.plots
          ELSE /\ Cardinality(plots) < MaxPlots
               /\ plots' = StagePlot_create(plots, uid, name, state)
               /\ resp' = [r EXCEPT !.status = 201, !.name = name, !.state = state,
                                    !.doc = [NoDoc EXCEPT !._id = Cardinality(plots) + 1]]
               /\ reqs' = [reqs EXCEPT ![c] = Idle]
    /\ UNCHANGED <<users, nextUid, feedback>>
    /\ UNCHANGED nonPlotVars

\* GET /api/plots/:id
GetPlotById(c, id) ==
    /\ reqs[c].pc = "route"
    /\ id # NoPlotId
    /\ LET r == [Reply("GET /api/plots/:id", reqs[c].user, 0) EXCEPT !.plotId = id]
           plot == StagePlot_findOne(plots, id, reqs[c].user)
       IN IF ~isValidObjectId(id)
          THEN resp' = [r EXCEPT !.status = 400]
          ELSE IF plot = {}
               THEN resp' = [r EXCEPT !.status = 404]
               ELSE LET p == CHOOSE q \in plot : TRUE
                    IN resp' = [r EXCEPT !.status = 200,
                                         !.doc = [_id |-> p._id,
                                                  name |-> nameOrUntitled(p.name),
                                                  state |-> p.state]]
    /\ reqs' = [reqs EXCEPT ![c] = Idle]
    /\ UNCHANGED <<users, nextUid, plots, feedback>>
    /\ UNCHANGED nonPlotVars

\* POST /api/feedback
PostFeedback(c, bmessage) ==
    /\ reqs[c].pc = "route"
    /\ LET message == stringOf(bmessage)
           r == Reply("POST /api/feedback", reqs[c].user, 0)
       IN IF message = Empty
          THEN /\ resp' = [r EXCEPT !.status = 400]
               /\ UNCHANGED feedback
          ELSE /\ Len(feedback) < MaxFeedback
               /\ feedback' = Append(feedback, [userId |-> reqs[c].user, message |-> message])
               /\ resp' = [r EXCEPT !.status = 201]
    /\ reqs' = [reqs EXCEPT ![c] = Idle]
    /\ UNCHANGED <<users, nextUid, plots>>
    /\ UNCHANGED nonPlotVars

\* GET /api/admin/stats: no requireAuth, one countDocuments.
AdminStats ==
    /\ resp' = [Reply("GET /api/admin/stats", 0, 200) EXCEPT
                   !.doc = [NoDoc EXCEPT !._id = Cardinality(plots)]]
    /\ UNCHANGED <<users, nextUid, plots, feedback, reqs>>
    /\ UNCHANGED nonPlotVars

InitPlots ==
    /\ users = {}
    /\ nextUid = 1
    /\ plots = {}
    /\ feedback = <<>>
    /\ reqs = [c \in Conns |-> Idle]
    /\ resp = NoResp

InitLibrary ==
    /\ taxonomies = <<>>
    /\ assets = {}
    /\ nextAsset = 1
    /\ files = {}
    /\ nextFile = 1
    /\ adm = [c \in Conns |->
                [pc |-> "idle", kind |-> "none", asset |-> 0, file |-> 0,
                 cat |-> <<>>, sec |-> <<>>, doc |-> 0, v |-> 0,
                 ch |-> [op |-> "none", cat |-> <<>>, sec |-> <<>>, idx |-> 0]]]
    /\ admResp = [kind |-> "none", status |-> 0, asset |-> 0, file |-> 0, stale |-> FALSE]

\* No call of detectPngHasAlpha.
NoScan == [buffer |-> <<>>, pc |-> "none", offset |-> 0, result |-> FALSE, hi |-> 0]

InitTax ==
    /\ png = NoScan
    /\ InitLibrary

\* No sign-in is in flight.
InitSignIn ==
    /\ auth = [c \in Conns |-> [pc |-> "idle", given |-> FALSE, valid |-> FALSE, sub |-> "",
                                email |-> "", name |-> "", picture |-> ""]]
    /\ authResp = [status |-> 0, cookie |-> [t |-> "none", uid |-> 0],
                   credential |-> [pc |-> "idle", given |-> FALSE, valid |-> FALSE, sub |-> "",
                                   email |-> "", name |-> "", picture |-> ""]]

\* isDbReady()
isDbReady_bucketOnly(state, b) == b

isDbReady(state, b) == state = 1 /\ b

\* The first connection attempt has succeeded; the database can be reached.
InitConnected ==
    /\ readyState = 1
    /\ bucket = TRUE
    /\ conn = [running |-> 0, timers |-> 0, connected |-> TRUE]
    /\ reachable = TRUE

\* No request has been received; the database is connected.
InitHttp ==
    /\ InitConnected
    /\ dbReady = isDbReady(readyState, bucket)
    /\ http = [origin |-> [present |-> FALSE, v |-> <<>>], status |-> 0, ran |-> <<>>]
    /\ handled = 0

\* CORS_ORIGIN is not set.
InitCors ==
    /\ corsOrigin = [set |-> FALSE, v |-> <<>>]
    /\ InitHttp

\* The Vercel function has no request.
InitPx ==
    /\ px = [pc |-> "idle", method |-> "GET", url |-> <<>>, body |-> "",
             status |-> 0, reply |-> ""]
    /\ up = [called |-> FALSE, url |-> <<>>, method |-> "GET", body |-> ""]
    /\ pxRes = <<>>

\* BACKEND_ORIGIN is the origin o.
InitProxy ==
    /\ backendOrigin = [set |-> TRUE, v |-> <<"o">>]
    /\ InitPx

\* The editor is open on an empty canvas: no plot chosen, nothing in flight.
InitEd ==
    /\ nodesHistory = [past |-> <<>>, present |-> [ref |-> 0, v |-> <<>>], future |-> <<>>]
    /\ edits = 0
    /\ undos = 0
    /\ ed = [pc |-> "idle", currentPlotId |-> 0, plotPickerId |-> 0, savedPlots |-> {},
             sending |-> <<>>, reply |-> [status |-> 0, _id |-> 0, state |-> <<>>],
             saved |-> [id \in PlotIds |-> [known |-> FALSE, v |-> <<>>]],
             error |-> FALSE, user |-> TRUE]
    /\ selectedId = 0
    /\ gesture = [set |-> FALSE, nodeId |-> 0, startScale |-> 0, startRotation |-> 0]

\* The element declaration of state is read as the fields of a subdocument.
InitEditor ==
    /\ InitEd
    /\ stateCast = "subdocuments"

\* GOOGLE_CLIENT_ID and SESSION_SECRET are set.
InitAuth ==
    /\ env = [GOOGLE_CLIENT_ID |-> TRUE, SESSION_SECRET |-> TRUE]
    /\ InitSignIn

NextPlots ==
    \/ \E sub \in GoogleSubs : AuthGoogle(sub)
    \/ \E u \in users : UserRemoved(u)
    \/ \E c \in Conns, cookie \in Tokens, bearer \in Tokens : RequireAuth(c, cookie, bearer)
    \/ \E c \in Conns : GetPlots(c)
    \/ \E c \in Conns, bstate \in StateIn, bname \in NameIn, plotId \in PlotIdIn :
          PostPlots(c, bstate, bname, plotId)
    \/ \E c \in Conns, id \in PlotIdIn : GetPlotById(c, id)
    \/ \E c \in Conns, bmessage \in MessageIn : PostFeedback(c, bmessage)
    \/ AdminStats

\* The plot and feedback routes, with sign-in, on a database whose
\* asset library is left alone.
Init == InitPlots /\ InitTax /\ InitAuth /\ InitCors /\ InitProxy /\ InitEditor

SpecPlots == Init /\ [][NextPlots]_vars

----------------------------------------------------------------------------
(* Taxonomy and assets: the admin routes *)

\* req.body.category / name of the taxonomy routes, and the category and
\* section form fields of an upload or edit.
CatIn == {Empty, <<"a">>, <<SP, "a">>}
SecIn == {Empty, <<"s">>}

\* A normalizeName that leaves the string as it is.
normalizeName_raw(value) == value

\* String(value || '').trim()
normalizeName(value) == trim(value)

\* A Taxonomy document: categories in array order, each [name, sections],
\* and v, the version key __v that Mongoose keeps for array updates.
NewTaxonomy(categories) == [categories |-> categories, v |-> 0]

\* Taxonomy.findOne({}): the first document in natural order; 0: null.
Taxonomy_findOne(docs) == IF docs = <<>> THEN 0 ELSE 1

\* doc.categories.find((c) => c?.name === category): its index, 0 when undefined.
findCategory(categories, name) ==
    IF \E i \in 1..Len(categories) : categories[i].name = name
        THEN CHOOSE i \in 1..Len(categories) :
                /\ categories[i].name = name
                /\ \A j \in 1..(i - 1) : categories[j].name # name
        ELSE 0

includes(seq, x) == \E i \in 1..Len(seq) : seq[i] = x

\* The categories a first Taxonomy.create is given for (category, section).
firstCategories(category, section) ==
    IF category # Empty
        THEN <<[name |-> category,
                sections |-> IF section # Empty THEN <<section>> ELSE <<>>]>>
        ELSE <<>>

\* What the code changes on the document it read, as the update doc.save()
\* will send.  A category that is missing is pushed as a plain object
\* { name, sections: [] } and the section is pushed onto that object afterwards;
\* `shared` says whether the element Mongoose stored on push still is that
\* object (Mongoose casts what is pushed; the cast is not part of this source).
\* A section missing from a stored category is pushed at that category's index.
NoOp == [op |-> "none", cat |-> Empty, sec |-> Empty, idx |-> 0]

changesFor(doc, category, section, shared) ==
    IF category = Empty THEN NoOp
    ELSE LET i == findCategory(doc.categories, category)
         IN IF i = 0
            THEN [op |-> "pushCat", cat |-> category,
                  sec |-> IF shared THEN section ELSE Empty, idx |-> 0]
            ELSE IF section # Empty /\ ~includes(doc.categories[i].sections, section)
            THEN [op |-> "pushSec", cat |-> category, sec |-> section, idx |-> i]
            ELSE NoOp

\* doc.save() overwriting the array: { $set: { categories: [entry] } }.
Taxonomy_save_replace(docs, d, v, ch) ==
    IF ch.op = "pushCat"
    THEN [ok |-> TRUE,
          docs |-> [docs EXCEPT ![d] =
                      [categories |-> <<[name |-> ch.cat,
                                         sections |-> IF ch.sec # Empty THEN <<ch.sec>> ELSE <<>>]>>,
                       v |-> @.v + 1]]]
    ELSE IF ch.op = "pushSec"
    THEN IF docs[d].v = v
         THEN [ok |-> TRUE,
               docs |-> [docs EXCEPT ![d] =
                           [categories |-> [@.categories EXCEPT ![ch.idx].sections = Append(@, ch.sec)],
                            v |-> @.v + 1]]]
         ELSE [ok |-> FALSE, docs |-> docs]
    ELSE [ok |-> TRUE, docs |-> docs]

\* doc.save() of document d, read at version v, with the change ch.
\* Mongoose sends an array push as an atomic $push with $inc of __v: a push
\* onto the top-level array carries no version condition; a push below an
\* array index (categories.<idx>.sections) carries { __v: v } and fails with a
\* VersionError when the document has been saved since.  Nothing to send: no
\* write.
Taxonomy_save(docs, d, v, ch) ==
    IF ch.op = "pushCat"
    THEN [ok |-> TRUE,
          docs |-> [docs EXCEPT ![d] =
                      [categories |-> Append(@.categories,
                                             [name |-> ch.cat,
                                              sections |-> IF ch.sec # Empty THEN <<ch.sec>> ELSE <<>>]),
                       v |-> @.v + 1]]]
    ELSE IF ch.op = "pushSec"
    THEN IF docs[d].v = v
         THEN [ok |-> TRUE,
               docs |-> [docs EXCEPT ![d] =
                           [categories |-> [@.categories EXCEPT ![ch.idx].sections = Append(@, ch.sec)],
                            v |-> @.v + 1]]]
         ELSE [ok |-> FALSE, docs |-> docs]
    ELSE [ok |-> TRUE, docs |-> docs]

\* An admin connection is idle or between two database calls of a handler:
\*   "upsert"   the asset is written, upsertTaxonomyCategorySection(cat, sec)
\*              is about to call Taxonomy.findOne
\*   "create"   Taxonomy.findOne answered null, Taxonomy.create is next
\*   "save"     the document doc was read at version v, doc.save() is next
\*   "deleting" Asset.findById answered the asset, Asset.deleteOne is next
\*   "stored"   the uploaded file is in GridFS under the id file, Asset.create
\*              is next
\*   "unlinking" the Asset record is deleted, bucket.delete of file is next
AdmIdle == [pc |-> "idle", kind |-> "none", asset |-> 0, file |-> 0,
            cat |-> Empty, sec |-> Empty, doc |-> 0, v |-> 0, ch |-> NoOp]

\* stale: the save answered was of a copy read before a later save by another
\* request.
NoAdmResp == [kind |-> "none", status |-> 0, asset |-> 0, file |-> 0, stale |-> FALSE]

AdmReply(kind, status) == [NoAdmResp EXCEPT !.kind = kind, !.status = status]

\* The status a handler answers with once its taxonomy write is done.
doneStatus(kind) ==
    IF kind \in {"GET /api/admin/taxonomy", "PATCH /api/admin/assets/:id"} THEN 200 ELSE 201

AssetIds == 1..MaxAssets

\* Precedes every admin step but the one that answers: no answer was sent.
Quiet == admResp' = NoAdmResp

\* GET /api/admin/taxonomy: getOrCreateTaxonomy up to Taxonomy.findOne.
GetTaxonomy(c) ==
    /\ adm[c].pc = "idle"
    /\ IF Taxonomy_findOne(taxonomies) # 0
          THEN /\ admResp' = AdmReply("GET /api/admin/taxonomy", 200)
               /\ UNCHANGED adm
          ELSE /\ adm' = [adm EXCEPT ![c] = [AdmIdle EXCEPT !.pc = "create",
                                                !.kind = "GET /api/admin/taxonomy"]]
               /\ Quiet
    /\ UNCHANGED <<taxonomies, assets, nextAsset, files, nextFile>>
    /\ UNCHANGED nonTaxVars

\* POST /api/admin/taxonomy/categories up to Taxonomy.findOne.
PostCategory(c, bname) ==
    /\ adm[c].pc = "idle"
    /\ LET kind == "POST /api/admin/taxonomy/categories"
           name == normalizeName(bname)
           d == Taxonomy_findOne(taxonomies)
       IN IF name = Empty
          THEN admResp' = AdmReply(kind, 400) /\ UNCHANGED adm
          ELSE IF d = 0
          THEN /\ adm' = [adm EXCEPT ![c] = [AdmIdle EXCEPT !.pc = "create", !.kind = kind,
                                                              !.cat = name]]
               /\ Quiet
          ELSE IF findCategory(taxonomies[d].categories, name) # 0
          THEN admResp' = AdmReply(kind, 201) /\ UNCHANGED adm
          ELSE /\ adm' = [adm EXCEPT ![c] =
                            [AdmIdle EXCEPT !.pc = "save", !.kind = kind, !.doc = d,
                                            !.v = taxonomies[d].v,
                                            !.ch = changesFor(taxonomies[d], name, Empty, FALSE)]]
               /\ Quiet
    /\ UNCHANGED <<taxonomies, assets, nextAsset, files, nextFile>>
    /\ UNCHANGED nonTaxVars

\* POST /api/admin/taxonomy/sections up to Taxonomy.findOne.
PostSection(c, bcategory, bname, shared) ==
    /\ adm[c].pc = "idle"
    /\ LET kind == "POST /api/admin/taxonomy/sections"
           category == normalizeName(bcategory)
           name == normalizeName(bname)
           d == Taxonomy_findOne(taxonomies)
       IN IF category = Empty \/ name = Empty
          THEN admResp' = AdmReply(kind, 400) /\ UNCHANGED adm
          ELSE IF d = 0
          THEN /\ adm' = [adm EXCEPT ![c] = [AdmIdle EXCEPT !.pc = "create", !.kind = kind,
                                                              !.cat = category, !.sec = name]]
               /\ Quiet
          ELSE LET ch == changesFor(taxonomies[d], category, name, shared)
               IN IF ch.op = "none"
                  THEN admResp' = AdmReply(kind, 201) /\ UNCHANGED adm
                  ELSE /\ adm' = [adm EXCEPT ![c] =
                                    [AdmIdle EXCEPT !.pc = "save", !.kind = kind, !.doc = d,
                                                    !.v = taxonomies[d].v, !.ch = ch]]
                       /\ Quiet
    /\ UNCHANGED <<taxonomies, assets, nextAsset, files, nextFile>>
    /\ UNCHANGED nonTaxVars

\* After the asset is written: upsertTaxonomyCategorySection returns at once
\* when both names are empty, and the handler answers.
afterAssetWrite(c, kind, id, category, section) ==
    LET cat == normalizeName(category)
        sec == normalizeName(section)
    IN IF cat = Empty /\ sec = Empty
       THEN /\ admResp' = [AdmReply(kind, doneStatus(kind)) EXCEPT !.asset = id]
            /\ adm' = [adm EXCEPT ![c] = AdmIdle]
       ELSE /\ adm' = [adm EXCEPT ![c] = [AdmIdle EXCEPT !.pc = "upsert", !.kind = kind,
                                                           !.asset = id, !.cat = cat, !.sec = sec]]
            /\ Quiet

\* limits.fileSize of the multer upload, in bytes.
FileSizeLimit == 2 * 1024 * 1024

\* The file part of the multipart body: none, or its Content-Type and length.
NoFile == [present |-> FALSE, mimetype |-> "", size |-> 0]
FileIn == {NoFile}
          \cup {[present |-> TRUE, mimetype |-> m, size |-> n] :
                  m \in {"image/png", "image/x-png", "image/svg+xml", "image/jpeg"},
                  n \in {1024, FileSizeLimit + 1}}

\* One file that passes multer.
PngIn == {[present |-> TRUE, mimetype |-> "image/png", size |-> 1024]}

\* A filter that lets every type through.
fileFilter_any(file) == TRUE

\* multer's fileFilter.
fileFilter(file) ==
    \/ file.mimetype = "image/png"
    \/ file.mimetype = "image/svg+xml"
    \/ file.mimetype = "image/x-png"

\* upload.single('file'): "ok", or the way the request ends before the
\* handler: the filter's Error and the MulterError of a file over
\* limits.fileSize go to the default error handler (500).  Without a file part
\* multer sets no req.file.
multerSingle(file) ==
    IF ~file.present THEN "nofile"
    ELSE IF ~fileFilter(file) THEN "filtered"
    ELSE IF file.size > FileSizeLimit THEN "toolarge"
    ELSE "ok"

\* POST /api/admin/assets up to `await finished(uploadStream)`: multer, the
\* check for req.file.buffer, and the write of the buffer to GridFS.
UploadFile(c, file) ==
    /\ adm[c].pc = "idle"
    /\ LET kind == "POST /api/admin/assets"
           m == multerSingle(file)
       IN IF m = "ok"
          THEN /\ nextFile <= MaxAssets
               /\ files' = files \cup {[_id |-> nextFile, contentType |-> file.mimetype]}
               /\ nextFile' = nextFile + 1
               /\ adm' = [adm EXCEPT ![c] = [AdmIdle EXCEPT !.pc = "stored", !.kind = kind,
                                                              !.file = nextFile]]
               /\ Quiet
          ELSE /\ admResp' = AdmReply(kind, IF m = "nofile" THEN 400 ELSE 500)
               /\ UNCHANGED <<files, nextFile, adm>>
    /\ UNCHANGED <<taxonomies, assets, nextAsset>>
    /\ UNCHANGED nonTaxVars

\* POST /api/admin/assets from Asset.create on.
PostAsset(c, category, section) ==
    /\ adm[c].pc = "stored"
    /\ assets' = assets \cup {[_id |-> nextAsset, category |-> category, section |-> section,
                                fileId |-> adm[c].file]}
    /\ nextAsset' = nextAsset + 1
    /\ afterAssetWrite(c, "POST /api/admin/assets", nextAsset, category, section)
    /\ UNCHANGED <<taxonomies, files, nextFile>>
    /\ UNCHANGED nonTaxVars

\* PATCH /api/admin/assets/:id up to Asset.findByIdAndUpdate.  A form field
\* that is no string is left out of the patch (hasCat, hasSec).
PatchAsset(c, id, hasCat, category, hasSec, section) ==
    /\ adm[c].pc = "idle"
    /\ LET kind == "PATCH /api/admin/assets/:id"
           found == {a \in assets : a._id = id}
       IN IF found = {}
          THEN /\ admResp' = AdmReply(kind, 404)
               /\ UNCHANGED <<adm, assets>>
          ELSE LET a == CHOOSE x \in found : TRUE
                   updated == [a EXCEPT !.category = IF hasCat THEN category ELSE @,
                                        !.section = IF hasSec THEN section ELSE @]
               IN /\ assets' = (assets \ found) \cup {updated}
                  /\ afterAssetWrite(c, kind, id, updated.category, updated.section)
    /\ UNCHANGED <<taxonomies, nextAsset, files, nextFile>>
    /\ UNCHANGED nonTaxVars

\* upsertTaxonomyCategorySection up to Taxonomy.findOne.
UpsertFind(c, shared) ==
    /\ adm[c].pc = "upsert"
    /\ LET d == Taxonomy_findOne(taxonomies)
       IN IF d = 0
          THEN adm' = [adm EXCEPT ![c].pc = "create"]
          ELSE adm' = [adm EXCEPT ![c].pc = "save", ![c].doc = d, ![c].v = taxonomies[d].v,
                                  ![c].ch = changesFor(taxonomies[d], adm[c].cat, adm[c].sec, shared)]
    /\ Quiet
    /\ UNCHANGED <<taxonomies, assets, nextAsset, files, nextFile>>
    /\ UNCHANGED nonTaxVars

\* Taxonomy.create, and the answer of the handler that called it.
TaxonomyCreate(c) ==
    /\ adm[c].pc = "create"
    /\ taxonomies' = Append(taxonomies, NewTaxonomy(firstCategories(adm[c].cat, adm[c].sec)))
    /\ admResp' = [AdmReply(adm[c].kind, doneStatus(adm[c].kind)) EXCEPT !.asset = adm[c].asset]
    /\ adm' = [adm EXCEPT ![c] = AdmIdle]
    /\ UNCHANGED <<assets, nextAsset, files, nextFile>>
    /\ UNCHANGED nonTaxVars

\* doc.save(), and the answer of the handler that called it: a VersionError
\* is answered 500.
DocSave(c) ==
    /\ adm[c].pc = "save"
    /\ LET res == Taxonomy_save(taxonomies, adm[c].doc, adm[c].v, adm[c].ch)
       IN /\ taxonomies' = res.docs
          /\ admResp' = [AdmReply(adm[c].kind, IF res.ok THEN doneStatus(adm[c].kind) ELSE 500)
                           EXCEPT !.asset = adm[c].asset,
                                  !.stale = res.ok /\ adm[c].ch.op # "none"
                                            /\ taxonomies[adm[c].doc].v # adm[c].v]
    /\ adm' = [adm EXCEPT ![c] = AdmIdle]
    /\ UNCHANGED <<assets, nextAsset, files, nextFile>>
    /\ UNCHANGED nonTaxVars

\* DELETE /api/admin/assets/:id up to Asset.findById.
DeleteAssetFind(c, id) ==
    /\ adm[c].pc = "idle"
    /\ IF \E a \in assets : a._id = id
          THEN /\ adm' = [adm EXCEPT ![c] =
                            [AdmIdle EXCEPT !.pc = "deleting",
                                            !.kind = "DELETE /api/admin/assets/:id",
                                            !.asset = id,
                                            !.file = (CHOOSE a \in assets : a._id = id).fileId]]
               /\ Quiet
          ELSE /\ admResp' = [AdmReply("DELETE /api/admin/assets/:id", 404) EXCEPT !.asset = id]
               /\ UNCHANGED adm
    /\ UNCHANGED <<taxonomies, assets, nextAsset, files, nextFile>>
    /\ UNCHANGED nonTaxVars

\* DELETE /api/admin/assets/:id: Asset.deleteOne({ _id: asset._id }).
DeleteAsset(c) ==
    /\ adm[c].pc = "deleting"
    /\ assets' = {a \in assets : a._id # adm[c].asset}
    /\ adm' = [adm EXCEPT ![c].pc = "unlinking"]
    /\ Quiet
    /\ UNCHANGED <<taxonomies, nextAsset, files, nextFile>>
    /\ UNCHANGED nonTaxVars

\* A handler that leaves the file in the bucket.
GridFS_delete_skip(fs, id) == [threw |-> FALSE, files |-> fs]

\* bucket.delete(id): removes the file; rejects when the bucket has no file
\* of that id.
GridFS_delete(fs, id) ==
    IF \E f \in fs : f._id = id
        THEN [threw |-> FALSE, files |-> {f \in fs : f._id # id}]
        ELSE [threw |-> TRUE, files |-> fs]

\* DELETE /api/admin/assets/:id: bucket.delete, whose rejection is caught
\* and ignored, and the answer { ok: true }.
BucketDelete(c) ==
    /\ adm[c].pc = "unlinking"
    /\ files' = GridFS_delete(files, adm[c].file).files
    /\ admResp' = [AdmReply(adm[c].kind, 200) EXCEPT !.asset = adm[c].asset,
                                                      !.file = adm[c].file]
    /\ adm' = [adm EXCEPT ![c] = AdmIdle]
    /\ UNCHANGED <<taxonomies, assets, nextAsset, nextFile>>
    /\ UNCHANGED nonTaxVars

NextTax ==
    \/ \E c \in Conns : GetTaxonomy(c)
    \/ \E c \in Conns, bname \in CatIn : PostCategory(c, bname)
    \/ \E c \in Conns, bcategory \in CatIn, bname \in SecIn, shared \in BOOLEAN :
          PostSection(c, bcategory, bname, shared)
    \/ \E c \in Conns, file \in PngIn : UploadFile(c, file)
    \/ \E c \in Conns, category \in CatIn, section \in SecIn : PostAsset(c, category, section)
    \/ \E c \in Conns, id \in AssetIds, hasCat \in BOOLEAN, category \in CatIn,
          hasSec \in BOOLEAN, section \in SecIn :
          PatchAsset(c, id, hasCat, category, hasSec, section)
    \/ \E c \in Conns, shared \in BOOLEAN : UpsertFind(c, shared)
    \/ \E c \in Conns : TaxonomyCreate(c)
    \/ \E c \in Conns : DocSave(c)
    \/ \E c \in Conns, id \in AssetIds : DeleteAssetFind(c, id)
    \/ \E c \in Conns : DeleteAsset(c)
    \/ \E c \in Conns : BucketDelete(c)

\* The admin routes on the asset library and the taxonomy, starting on an
\* empty database, with the plot routes left alone.  Every upload is of one
\* accepted file.
SpecTax == Init /\ [][NextTax]_vars

\* Names that differ in letter case or in surrounding whitespace only.
VariantCatIn == {<<"a">>, <<SP, "a">>, <<"a", SP>>, <<"A">>}
VariantSecIn == {<<"s">>, <<SP, "s">>, <<"S">>}

NextNames ==
    \/ \E c \in Conns, bname \in VariantCatIn : PostCategory(c, bname)
    \/ \E c \in Conns, bname \in VariantSecIn, shared \in BOOLEAN :
          PostSection(c, <<"a">>, bname, shared)
    \/ \E c \in Conns : TaxonomyCreate(c)
    \/ \E c \in Conns : DocSave(c)

\* The two taxonomy routes, with names that are variants of one another.
SpecNames == Init /\ [][NextNames]_vars

NextAssets ==
    \/ \E c \in Conns, file \in FileIn : UploadFile(c, file)
    \/ \E c \in Conns, category \in CatIn, section \in SecIn : PostAsset(c, category, section)
    \/ \E c \in Conns, id \in AssetIds, hasCat \in BOOLEAN, category \in CatIn,
          hasSec \in BOOLEAN, section \in SecIn :
          PatchAsset(c, id, hasCat, category, hasSec, section)
    \/ \E c \in Conns, shared \in BOOLEAN : UpsertFind(c, shared)
    \/ \E c \in Conns : TaxonomyCreate(c)
    \/ \E c \in Conns : DocSave(c)
    \/ \E c \in Conns, id \in AssetIds : DeleteAssetFind(c, id)
    \/ \E c \in Conns : DeleteAsset(c)
    \/ \E c \in Conns : BucketDelete(c)

\* The life of an asset: uploads of every kind of file, edits and deletes.
SpecAssets == Init /\ [][NextAssets]_vars

\* GET /api/admin/assets: Asset.find({}), answered as it is.
GetAdminAssets(c) ==
    /\ adm[c].pc = "idle"
    /\ admResp' = AdmReply("GET /api/admin/assets", 200)
    /\ UNCHANGED <<taxonomies, assets, nextAsset, files, nextFile, adm>>
    /\ UNCHANGED nonTaxVars

\* Every route declared with requireAuth before its handler.
middlewareOf_all(route) == "requireAuth"

\* The middleware a route is declared with, after the readiness gate:
\* app.get('/api/plots', requireAuth, ...) and the like, against
\* app.get('/api/admin/taxonomy', async (req, res) => ...).
middlewareOf(route) ==
    IF route \in {"GET /api/plots", "POST /api/plots", "GET /api/plots/:id",
                  "POST /api/feedback"}
    THEN "requireAuth"
    ELSE "none"

\* requireAuth calls next(): the token verifies and names a user record.
authenticated(us, cookie, bearer) ==
    LET uid == verifySessionToken(getSessionTokenFromRequest(cookie, bearer))
    IN uid # 0 /\ User_findById(us, uid) # {}

\* Express hands the request to the handler of the route.
admitted(route, cookie, bearer) ==
    middlewareOf(route) = "requireAuth" => authenticated(users, cookie, bearer)

\* The routes under /api/admin, each reached through the middleware it is
\* declared with, by callers with any cookie; and requireAuth of the plot
\* routes.  No user has ever signed in.
NextAdmin ==
    \/ \E c \in Conns, cookie \in Tokens :
          admitted("GET /api/admin/taxonomy", cookie, NoToken) /\ GetTaxonomy(c)
    \/ \E c \in Conns, cookie \in Tokens, bname \in {Empty, <<"a">>} :
          admitted("POST /api/admin/taxonomy/categories", cookie, NoToken)
          /\ PostCategory(c, bname)
    \/ \E c \in Conns, cookie \in Tokens, bname \in SecIn :
          admitted("POST /api/admin/taxonomy/sections", cookie, NoToken)
          /\ PostSection(c, <<"a">>, bname, FALSE)
    \/ \E c \in Conns, cookie \in Tokens, file \in PngIn :
          admitted("POST /api/admin/assets", cookie, NoToken) /\ UploadFile(c, file)
    \/ \E c \in Conns, cookie \in Tokens :
          admitted("GET /api/admin/assets", cookie, NoToken) /\ GetAdminAssets(c)
    \/ \E c \in Conns, cookie \in Tokens, id \in AssetIds :
          admitted("PATCH /api/admin/assets/:id", cookie, NoToken)
          /\ PatchAsset(c, id, TRUE, <<"a">>, FALSE, Empty)
    \/ \E c \in Conns, cookie \in Tokens, id \in AssetIds :
          admitted("DELETE /api/admin/assets/:id", cookie, NoToken) /\ DeleteAssetFind(c, id)
    \/ \E cookie \in Tokens :
          admitted("GET /api/admin/stats", cookie, NoToken) /\ AdminStats
    \/ \E c \in Conns, cookie \in Tokens : RequireAuth(c, cookie, NoToken)
    \/ \E c \in Conns, section \in SecIn : PostAsset(c, <<"a">>, section)
    \/ \E c \in Conns, shared \in BOOLEAN : UpsertFind(c, shared)
    \/ \E c \in Conns : TaxonomyCreate(c)
    \/ \E c \in Conns : DocSave(c)
    \/ \E c \in Conns : DeleteAsset(c)
    \/ \E c \in Conns : BucketDelete(c)

SpecAdmin == Init /\ [][NextAdmin]_vars

----------------------------------------------------------------------------
(* detectPngHasAlpha, which the upload runs on the buffer of a PNG file *)

MaxChunks == 3      \* chunks written after the signature of an uploaded buffer

\* const sig = Buffer.from([0x89, 0x50, 0x4e, 0x47, 0x0d, 0x0a, 0x1a, 0x0a])
sig == <<137, 80, 78, 71, 13, 10, 26, 10>>

\* The bytes of the chunk types 'IHDR', 'tRNS', 'IEND' and 'IDAT'.
IHDR == <<73, 72, 68, 82>>
tRNS == <<116, 82, 78, 83>>
IEND == <<73, 69, 78, 68>>
IDAT == <<73, 68, 65, 84>>

\* n bytes 0
zeros(n) == [i \in 1..n |-> 0]

\* A chunk as it lies in the buffer: length, type, data, CRC.
chunk(length, type, data) == length \o type \o data \o zeros(4)

\* The chunks a buffer is made of: IHDR of 13 bytes with a colour type, IHDR
\* of 12 bytes, tRNS, IDAT, IEND, a chunk whose type bytes are those of tRNS
\* with the high bit of the first set, and a tRNS whose length field says
\* 65535 bytes that are not there.
ChunkIn ==
    {chunk(<<0, 0, 0, 13>>, IHDR, zeros(9) \o <<c>> \o zeros(3)) : c \in {2, 4, 6}}
    \cup {chunk(<<0, 0, 0, 12>>, IHDR, zeros(9) \o <<6>> \o zeros(2)),
          chunk(<<0, 0, 0, 0>>, tRNS, <<>>),
          chunk(<<0, 0, 0, 1>>, IDAT, <<7>>),
          chunk(<<0, 0, 0, 0>>, IEND, <<>>),
          chunk(<<0, 0, 0, 0>>, <<244, 82, 78, 83>>, <<>>),
          chunk(<<0, 0, 255, 255>>, tRNS, <<>>)}

RECURSIVE concat(_)
concat(ss) == IF ss = <<>> THEN <<>> ELSE Head(ss) \o concat(Tail(ss))

\* The buffers of an upload: eight bytes that are the signature or not, up to
\* MaxChunks chunks, and then nothing, or eleven bytes that are no whole
\* chunk header.
BufferIn ==
    {s \o concat(cs) \o t :
        s \in {sig, <<0>> \o Tail(sig)},
        cs \in UNION {[1..n -> ChunkIn] : n \in 0..MaxChunks},
        t \in {<<>>, zeros(11)}}

\* buffer.subarray(start, end): the bytes from start up to end, or up to the
\* end of the buffer.
subarray(buffer, start, end) ==
    SubSeq(buffer, start + 1, IF end > Len(buffer) THEN Len(buffer) ELSE end)

\* buffer.readUInt32BE(offset)
readUInt32BE(buffer, offset) ==
    ((buffer[offset + 1] * 256 + buffer[offset + 2]) * 256 + buffer[offset + 3]) * 256
    + buffer[offset + 4]

\* bytes.toString('ascii'): the high bit of each byte is unset on decoding.
toString_ascii(bytes) == [i \in 1..Len(bytes) |-> bytes[i] % 128]

\* One run of the body of the while loop at offset: what it does ("true":
\* return true, "break", "next": go on at the offset given), and the end of
\* the bytes it has read.
whileBody(buffer, offset) ==
    LET length == readUInt32BE(buffer, offset)
        type == toString_ascii(subarray(buffer, offset + 4, offset + 8))
        dataStart == offset + 8
        dataEnd == dataStart + length
    IN IF dataEnd + 4 > Len(buffer)
       THEN [does |-> "break", offset |-> offset, hi |-> offset + 8]
       ELSE IF type = IHDR /\ length >= 13 /\ buffer[dataStart + 9 + 1] \in {4, 6}
       THEN [does |-> "true", offset |-> offset, hi |-> dataStart + 10]
       ELSE IF type = tRNS
       THEN [does |-> "true", offset |-> offset,
             hi |-> IF type = IHDR /\ length >= 13 THEN dataStart + 10 ELSE offset + 8]
       ELSE IF type = IEND
       THEN [does |-> "break", offset |-> offset, hi |-> offset + 8]
       ELSE [does |-> "next", offset |-> dataEnd + 4,
             hi |-> IF type = IHDR /\ length >= 13 THEN dataStart + 10 ELSE offset + 8]

\* What the steps of detectPngHasAlpha leave alone.
ScanFrame ==
    UNCHANGED <<plotVars, taxVars, authVars, corsVars, clientVars, startVars>>

\* detectPngHasAlpha(buffer) up to the loop: the length and the signature.
detectPngHasAlpha ==
    /\ png.pc = "called"
    /\ png' = IF Len(png.buffer) < 24
              THEN [png EXCEPT !.pc = "returned", !.result = FALSE]
              ELSE IF subarray(png.buffer, 0, 8) # sig
              THEN [png EXCEPT !.pc = "returned", !.result = FALSE, !.hi = 8]
              ELSE [png EXCEPT !.pc = "while", !.offset = 8, !.hi = 8]
    /\ ScanFrame

\* The test of the while loop and one run of its body; after the loop,
\* return false.
whileLoop ==
    /\ png.pc = "while"
    /\ IF png.offset + 12 <= Len(png.buffer)
       THEN LET b == whileBody(png.buffer, png.offset)
                hi == IF b.hi > png.hi THEN b.hi ELSE png.hi
            IN png' = CASE b.does = "true" ->
                             [png EXCEPT !.pc = "returned", !.result = TRUE, !.hi = hi]
                        [] b.does = "break" ->
                             [png EXCEPT !.pc = "returned", !.result = FALSE, !.hi = hi]
                        [] b.does = "next" ->
                             [png EXCEPT !.offset = b.offset, !.hi = hi]
       ELSE png' = [png EXCEPT !.pc = "returned", !.result = FALSE]
    /\ ScanFrame

NextPng ==
    \/ detectPngHasAlpha
    \/ whileLoop

\* The upload calls detectPngHasAlpha on the buffer of a file.
InitPng ==
    /\ InitPlots /\ InitLibrary /\ InitAuth /\ InitCors /\ InitProxy /\ InitEditor
    /\ png \in {[NoScan EXCEPT !.buffer = b, !.pc = "called"] : b \in BufferIn}

SpecPng == InitPng /\ [][NextPng]_vars

\* The function runs on: no step of it waits for anything.
FairPng == SpecPng /\ WF_vars(NextPng)

----------------------------------------------------------------------------
(* Sign-in: POST /api/auth/google *)

\* GOOGLE_CLIENT_ID, SESSION_SECRET: set (non-empty) or not.
EnvIn == {[GOOGLE_CLIENT_ID |-> g, SESSION_SECRET |-> k] : g, k \in BOOLEAN}

\* A payload field the ID token does not carry.
Undefined == "undefined"

\* String(value || '')
stringOrEmpty(value) == IF value = Undefined THEN "" ELSE value

\* req.body.credential: none, or an ID token: whether Google's verification
\* accepts it, and the payload it carries.
NoCredential == [pc |-> "idle", given |-> FALSE, valid |-> FALSE, sub |-> "",
                 email |-> "", name |-> "", picture |-> ""]

CredentialIn ==
    {NoCredential}
    \cup {[pc |-> "idle", given |-> TRUE, valid |-> v, sub |-> sb,
           email |-> p[1], name |-> p[2], picture |-> p[3]] :
             v \in BOOLEAN, sb \in GoogleSubs \cup {Undefined},
             p \in {<<"e1", "n1", Undefined>>, <<"e2", "", "p2">>}}

\* A verification that only decodes the token.
verifyIdToken_decodeOnly(credential) == [threw |-> FALSE, payload |-> credential]

\* googleClient.verifyIdToken(...).getPayload(): throws unless the token
\* verifies.
verifyIdToken(credential) ==
    IF credential.valid THEN [threw |-> FALSE, payload |-> credential]
    ELSE [threw |-> TRUE, payload |-> NoCredential]

\* The document { googleSub, email, name, picture } of the update.
userFields(payload) ==
    [googleSub |-> payload.sub, email |-> stringOrEmpty(payload.email),
     name |-> stringOrEmpty(payload.name), picture |-> stringOrEmpty(payload.picture)]

withId(id, f) ==
    [_id |-> id, googleSub |-> f.googleSub, email |-> f.email, name |-> f.name,
     picture |-> f.picture]

\* An insert into a collection that has no unique index.
User_insert_noIndex(us, id, f) == [ok |-> TRUE, users |-> us \cup {withId(id, f)}]

\* The insert of an upsert: googleSub has a unique index, so the insert fails
\* (duplicate key) when a record of that googleSub is there by now.
User_insert(us, id, f) ==
    IF \E u \in us : u.googleSub = f.googleSub
        THEN [ok |-> FALSE, users |-> us]
        ELSE [ok |-> TRUE, users |-> us \cup {withId(id, f)}]

\* The update of the record that matches { googleSub }.
User_update(us, f) ==
    {IF u.googleSub = f.googleSub THEN withId(u._id, f) ELSE u : u \in us}

NoAuthResp == [status |-> 0, cookie |-> NoToken, credential |-> NoCredential]

\* A response to the sign-in of credential cr; cookie: the sp_session cookie
\* it sets (NoToken: none).
AuthReply(status, cookie, cr) ==
    [status |-> status, cookie |-> cookie, credential |-> [cr EXCEPT !.pc = "idle"]]

\* res.json after jwt.sign({ uid, sub, email }) and setSessionCookie, for the
\* record findOneAndUpdate returned.
signedIn(c, us, cr) ==
    LET u == CHOOSE x \in us : x.googleSub = cr.sub
    IN /\ authResp' = AuthReply(200, Signed(u._id), cr)
       /\ auth' = [auth EXCEPT ![c] = NoCredential]

\* POST /api/auth/google up to `await googleClient.verifyIdToken`.
AuthGoogleStart(c, credential) ==
    /\ auth[c].pc = "idle"
    /\ IF ~env.GOOGLE_CLIENT_ID \/ ~env.SESSION_SECRET
          THEN authResp' = AuthReply(500, NoToken, credential) /\ UNCHANGED auth
          ELSE IF ~credential.given
          THEN authResp' = AuthReply(400, NoToken, credential) /\ UNCHANGED auth
          ELSE /\ auth' = [auth EXCEPT ![c] = [credential EXCEPT !.pc = "verifying"]]
               /\ authResp' = NoAuthResp
    /\ UNCHANGED <<env, users, nextUid>>
    /\ UNCHANGED nonAuthVars

\* From the answer of verifyIdToken up to the match of User.findOneAndUpdate
\* ({ googleSub }, ..., { upsert: true }): a thrown verification is caught
\* (401); a matching record is updated and the cookie set; with no match the
\* database goes on to insert.
AuthGoogleVerified(c) ==
    /\ auth[c].pc = "verifying"
    /\ LET r == verifyIdToken(auth[c])
       IN IF r.threw \/ r.payload.sub \in {Undefined, ""}
          THEN /\ authResp' = AuthReply(401, NoToken, auth[c])
               /\ auth' = [auth EXCEPT ![c] = NoCredential]
               /\ UNCHANGED users
          ELSE IF \E u \in users : u.googleSub = r.payload.sub
          THEN /\ users' = User_update(users, userFields(r.payload))
               /\ signedIn(c, users', r.payload)
          ELSE /\ auth' = [auth EXCEPT ![c].pc = "inserting"]
               /\ authResp' = NoAuthResp
               /\ UNCHANGED users
    /\ UNCHANGED <<env, nextUid>>
    /\ UNCHANGED nonAuthVars

\* The insert of the upsert.  On a duplicate key the server either runs the
\* upsert again, now as an update (retried), or the call rejects and the
\* handler's catch answers 401.
AuthGoogleInsert(c, retried) ==
    /\ auth[c].pc = "inserting"
    /\ nextUid <= MaxUsers
    /\ LET r == User_insert(users, nextUid, userFields(auth[c]))
       IN IF r.ok
          THEN /\ users' = r.users
               /\ nextUid' = nextUid + 1
               /\ authResp' = AuthReply(200, Signed(nextUid), auth[c])
               /\ auth' = [auth EXCEPT ![c] = NoCredential]
          ELSE IF retried
          THEN /\ users' = User_update(users, userFields(auth[c]))
               /\ signedIn(c, users', auth[c])
               /\ UNCHANGED nextUid
          ELSE /\ authResp' = AuthReply(401, NoToken, auth[c])
               /\ auth' = [auth EXCEPT ![c] = NoCredential]
               /\ UNCHANGED <<users, nextUid>>
    /\ UNCHANGED env
    /\ UNCHANGED nonAuthVars

NextAuth ==
    \/ \E c \in Conns, credential \in CredentialIn : AuthGoogleStart(c, credential)
    \/ \E c \in Conns : AuthGoogleVerified(c)
    \/ \E c \in Conns, retried \in BOOLEAN : AuthGoogleInsert(c, retried)

\* Sign-in on a server started with any setting of the two secrets.
InitAnyEnv ==
    InitPlots /\ InitTax /\ env \in EnvIn /\ InitSignIn /\ InitCors /\ InitProxy /\ InitEditor

SpecAuth == InitAnyEnv /\ [][NextAuth]_vars

\* POST /api/auth/logout: clearSessionCookie(res) and { ok: true }.  The
\* response sets sp_session to nothing; no record is read or written.
AuthLogout ==
    /\ authResp' = AuthReply(200, NoToken, NoCredential)
    /\ resp' = NoResp
    /\ UNCHANGED <<env, auth, users, nextUid, plots, feedback, reqs>>
    /\ UNCHANGED <<taxVars, corsVars, clientVars, startVars, pngVars>>

\* One credential Google verifies, for each subject.
GoodCredentialIn ==
    {cr \in CredentialIn : cr.given /\ cr.valid /\ cr.sub \in GoogleSubs /\ cr.email = "e1"}

\* Sign-in, logout, the removal of a user record, and requests on the plot
\* list with any cookie and any Authorization header.
NextLogout ==
    \/ \E c \in Conns, credential \in GoodCredentialIn : AuthGoogleStart(c, credential)
    \/ \E c \in Conns : AuthGoogleVerified(c)
    \/ \E c \in Conns, retried \in BOOLEAN : AuthGoogleInsert(c, retried)
    \/ AuthLogout
    \/ \E u \in users : UserRemoved(u)
    \/ \E c \in Conns, cookie \in Tokens, bearer \in Tokens : RequireAuth(c, cookie, bearer)
    \/ \E c \in Conns : GetPlots(c)

SpecLogout == Init /\ [][NextLogout]_vars

----------------------------------------------------------------------------
(* The CORS allowlist and the readiness gate in front of every route *)

\* process.env.CORS_ORIGIN: unset, or a string.  Origins are the strings a, b,
\* ab and c.
CorsOriginIn ==
    {[set |-> FALSE, v |-> <<>>]}
    \cup {[set |-> TRUE, v |-> v] :
            v \in {<<>>, <<SP>>, <<"*">>, <<SP, "*">>, <<"a">>, <<"a", ",", "b">>,
                   <<SP, "a", SP, ",", SP, "b">>, <<",">>, <<"a", "b">>}}

\* req.headers.origin: no header, or its value.
NoOrigin == [present |-> FALSE, v |-> <<>>]
OriginIn == {NoOrigin} \cup {[present |-> TRUE, v |-> v] : v \in {<<"a">>, <<"b">>, <<"a", "b">>, <<"c">>}}

\* s.split(',')
RECURSIVE split(_)
split(s) ==
    IF \E i \in 1..Len(s) : s[i] = ","
        THEN LET i == CHOOSE k \in 1..Len(s) :
                        s[k] = "," /\ \A j \in 1..(k - 1) : s[j] # ","
             IN <<SubSeq(s, 1, i - 1)>> \o split(SubSeq(s, i + 1, Len(s)))
        ELSE <<s>>

nonEmpty(s) == s # <<>>

\* parseCorsAllowedOrigins(): all: it returns null; else list is the array.
parseCorsAllowedOrigins(raw) ==
    LET trimmed == trim(IF raw.set THEN raw.v ELSE <<>>)
        parts == split(trimmed)
    IN IF trimmed = <<>> \/ trimmed = <<"*">>
       THEN [all |-> TRUE, list |-> <<>>]
       ELSE [all |-> FALSE,
             list |-> SelectSeq([i \in 1..Len(parts) |-> trim(parts[i])], nonEmpty)]

\* A server without the second middleware: the cors package alone lets the
\* request through without CORS headers.
isBlocked_never(raw, origin) == FALSE

\* The middleware after cors(): TRUE when it answers 403.
isBlocked(raw, origin) ==
    LET allowed == parseCorsAllowedOrigins(raw)
    IN IF allowed.all THEN FALSE
       ELSE IF ~origin.present \/ origin.v = <<>> THEN FALSE
       ELSE ~includes(allowed.list, origin.v)

\* One request (no preflight), from the first middleware to the route handler:
\* cors(), the 403 middleware, for a path under /api the readiness gate, then
\* the handler of the route (or the static files).
Receive(origin, api) ==
    /\ IF isBlocked(corsOrigin, origin)
          THEN /\ http' = [origin |-> origin, status |-> 403, ran |-> <<"cors", "check">>]
               /\ UNCHANGED handled
          ELSE IF api /\ ~dbReady
          THEN /\ http' = [origin |-> origin, status |-> 503, ran |-> <<"cors", "check", "gate">>]
               /\ UNCHANGED handled
          ELSE /\ handled < MaxHandled
               /\ handled' = handled + 1
               /\ http' = [origin |-> origin, status |-> 200,
                           ran |-> IF api THEN <<"cors", "check", "gate", "handler">>
                                   ELSE <<"cors", "check", "handler">>]
    /\ UNCHANGED <<corsOrigin, dbReady>>
    /\ UNCHANGED nonCorsVars

\* The connection to MongoDB is lost (mongoose.connection.readyState leaves 1).
Disconnected ==
    /\ readyState = 1
    /\ readyState' = 0
    /\ dbReady' = isDbReady(readyState', bucket)
    /\ UNCHANGED <<bucket, conn, reachable>>
    /\ UNCHANGED <<corsOrigin, http, handled>>
    /\ UNCHANGED appVars

\* The driver has reconnected a connection that was lost.
Reconnected ==
    /\ readyState = 0 /\ conn.connected /\ conn.running = 0 /\ conn.timers = 0
    /\ reachable
    /\ readyState' = 1
    /\ dbReady' = isDbReady(readyState', bucket)
    /\ UNCHANGED <<bucket, conn, reachable>>
    /\ UNCHANGED <<corsOrigin, http, handled>>
    /\ UNCHANGED appVars

NextCors ==
    \/ \E origin \in OriginIn, api \in BOOLEAN : Receive(origin, api)
    \/ Disconnected
    \/ Reconnected

\* Requests to a server started with any of the CORS_ORIGIN settings.
InitAnyCors ==
    /\ InitPlots /\ InitTax /\ InitAuth /\ corsOrigin \in CorsOriginIn /\ InitHttp /\ InitProxy
    /\ InitEditor

SpecCors == InitAnyCors /\ [][NextCors]_vars

----------------------------------------------------------------------------
(* Start-up: start() and connectWithRetry *)

\* connectWithRetry up to its await: readyState is not 1, mongoose.connect is
\* called; with readyState 1 the bucket is set at once.
connectWithRetry(c) ==
    IF readyState # 1
    THEN /\ readyState' = 2
         /\ conn' = [c EXCEPT !.running = @ + 1]
         /\ UNCHANGED bucket
    ELSE /\ bucket' = TRUE
         /\ conn' = c
         /\ UNCHANGED readyState

\* What every step of connectWithRetry leaves alone.
StartFrame ==
    /\ dbReady' = isDbReady(readyState', bucket')
    /\ UNCHANGED <<corsOrigin, http, handled, reachable>>
    /\ UNCHANGED appVars

\* The catch of a rejected attempt that sets no timer.
scheduleRetry_none(c) == c

\* setTimeout(connectWithRetry, 5000)
scheduleRetry(c) == [c EXCEPT !.timers = @ + 1]

\* mongoose.connect resolves: bucket = new GridFSBucket(...)
ConnectResolved ==
    /\ conn.running > 0
    /\ reachable
    /\ readyState' = 1
    /\ bucket' = TRUE
    /\ conn' = [conn EXCEPT !.running = @ - 1, !.connected = TRUE]
    /\ StartFrame

\* mongoose.connect rejects (no server selected within 8 s): the catch sets
\* bucket = null and a timer.
ConnectRejected ==
    /\ conn.running > 0
    /\ ~reachable
    /\ readyState' = 0
    /\ bucket' = FALSE
    /\ conn' = scheduleRetry([conn EXCEPT !.running = @ - 1])
    /\ StartFrame

\* The timer fires: connectWithRetry runs again.
RetryTimer ==
    /\ conn.timers > 0
    /\ connectWithRetry([conn EXCEPT !.timers = @ - 1])
    /\ StartFrame

\* The deployment becomes unreachable, or reachable.
DbDown ==
    /\ reachable
    /\ reachable' = FALSE
    /\ UNCHANGED <<readyState, bucket, conn>>
    /\ UNCHANGED corsVars
    /\ UNCHANGED appVars

DbUp ==
    /\ ~reachable
    /\ reachable' = TRUE
    /\ UNCHANGED <<readyState, bucket, conn>>
    /\ UNCHANGED corsVars
    /\ UNCHANGED appVars

NextStart ==
    \/ ConnectResolved
    \/ ConnectRejected
    \/ RetryTimer
    \/ Disconnected
    \/ Reconnected
    \/ DbDown
    \/ DbUp
    \/ \E origin \in OriginIn, api \in BOOLEAN : Receive(origin, api)

\* start(): the server listens, and connectWithRetry has run up to its await
\* of mongoose.connect; the deployment can be reached or not.
InitStart ==
    /\ InitPlots /\ InitTax /\ InitAuth /\ InitProxy /\ InitEditor
    /\ corsOrigin = [set |-> FALSE, v |-> <<>>]
    /\ http = [origin |-> [present |-> FALSE, v |-> <<>>], status |-> 0, ran |-> <<>>]
    /\ handled = 0
    /\ readyState = 2
    /\ bucket = FALSE
    /\ conn = [running |-> 1, timers |-> 0, connected |-> FALSE]
    /\ reachable \in BOOLEAN
    /\ dbReady = isDbReady(readyState, bucket)

SpecStart == InitStart /\ [][NextStart]_vars

\* The timer fires, a pending mongoose.connect settles, and the driver
\* reconnects when it can.
FairStart ==
    /\ SpecStart
    /\ WF_vars(RetryTimer)
    /\ WF_vars(ConnectResolved)
    /\ WF_vars(ConnectRejected)
    /\ WF_vars(Reconnected)

----------------------------------------------------------------------------
(* The Vercel function api/[...path].js that proxies /api/* to the backend *)

SL == "/"
QM == "?"

\* process.env.BACKEND_ORIGIN: unset, or a string; o is an origin.
BackendOriginIn ==
    {[set |-> FALSE, v |-> <<>>]}
    \cup {[set |-> TRUE, v |-> v] :
            v \in {<<>>, <<SP>>, <<SL>>, <<"o">>, <<"o", SL>>, <<SP, "o", SL, SL, SP>>}}

\* req.url: a path under /api, with or without a query.
UrlIn == {<<SL, "p">>, <<SL, "p", QM>>, <<SL, "p", QM, "q">>, <<SL, "p", SL, "r", QM, "q", QM>>}

\* req.method; Undefined: none.
MethodIn == {"GET", "HEAD", "POST", "DELETE", Undefined}

\* The bytes of the request body.
BodyIn == {"", "x"}

\* What the upstream answers: its status and body.
UpstreamIn == {[status |-> st, body |-> b] : st \in {200, 302, 404}, b \in {"", "y"}}

\* s.replace(/\/+$/, '')
RECURSIVE stripTrailingSlashes(_)
stripTrailingSlashes(s) ==
    IF s # <<>> /\ s[Len(s)] = SL THEN stripTrailingSlashes(SubSeq(s, 1, Len(s) - 1)) ELSE s

\* String(process.env.BACKEND_ORIGIN || '').trim().replace(/\/+$/, '')
backendOriginOf(raw) == stripTrailingSlashes(trim(IF raw.set THEN raw.v ELSE <<>>))

\* new URL(req.url, base).pathname: up to the first '?'.
pathname(url) ==
    IF \E i \in 1..Len(url) : url[i] = QM
        THEN SubSeq(url, 1, (CHOOSE k \in 1..Len(url) :
                                url[k] = QM /\ \A j \in 1..(k - 1) : url[j] # QM) - 1)
        ELSE url

\* new URL(req.url, base).search: from the first '?' on; '' for a lone '?'.
search(url) ==
    LET rest == SubSeq(url, Len(pathname(url)) + 1, Len(url))
    IN IF Len(rest) <= 1 THEN <<>> ELSE rest

\* A target without the query.
targetUrl_noQuery(origin, url) == origin \o pathname(url)

\* `${backendOrigin}${targetPath}${url.search}`
targetUrl(origin, url) == origin \o pathname(url) \o search(url)

\* req.method || 'GET'
methodOf(m) == IF m = Undefined THEN "GET" ELSE m

NoCall == [called |-> FALSE, url |-> <<>>, method |-> "GET", body |-> ""]

PxIdle == [pc |-> "idle", method |-> "GET", url |-> <<>>, body |-> "", status |-> 0, reply |-> ""]

\* The call fetch(targetUrl, { method, headers, body, redirect: 'manual' }).
fetchCall(origin, url, method, body) ==
    [called |-> TRUE, url |-> targetUrl(origin, url), method |-> method, body |-> body]

\* handler up to its first await: the answer 500 without BACKEND_ORIGIN; for
\* GET and HEAD the call of fetch without body; else readBody is awaited.
ProxyStart(m, url, body) ==
    /\ px.pc \in {"idle", "done"}
    /\ LET origin == backendOriginOf(backendOrigin)
           method == methodOf(m)
           rq == [PxIdle EXCEPT !.method = method, !.url = url, !.body = body]
       IN IF origin = <<>>
          THEN /\ px' = [rq EXCEPT !.pc = "done"]
               /\ pxRes' = <<[status |-> 500, body |-> "Missing BACKEND_ORIGIN"]>>
               /\ up' = NoCall
          ELSE IF method \in {"GET", "HEAD"}
          THEN /\ px' = [rq EXCEPT !.pc = "fetching"]
               /\ up' = fetchCall(origin, url, method, Undefined)
               /\ pxRes' = <<>>
          ELSE /\ px' = [rq EXCEPT !.pc = "reading"]
               /\ up' = NoCall
               /\ pxRes' = <<>>
    /\ UNCHANGED backendOrigin
    /\ UNCHANGED serverVars

\* readBody has resolved with the bytes of the request: the call of fetch;
\* or it has rejected (failed): the catch answers 502.
ProxyBodyRead(failed) ==
    /\ px.pc = "reading"
    /\ IF failed
          THEN /\ px' = [px EXCEPT !.pc = "done"]
               /\ pxRes' = Append(pxRes, [status |-> 502, body |-> "error"])
               /\ UNCHANGED up
          ELSE /\ px' = [px EXCEPT !.pc = "fetching"]
               /\ up' = fetchCall(backendOriginOf(backendOrigin), px.url, px.method, px.body)
               /\ UNCHANGED pxRes
    /\ UNCHANGED backendOrigin
    /\ UNCHANGED serverVars

\* fetch has rejected: the catch answers 502.
ProxyFetchThrew ==
    /\ px.pc = "fetching"
    /\ px' = [px EXCEPT !.pc = "done"]
    /\ pxRes' = Append(pxRes, [status |-> 502, body |-> "error"])
    /\ UNCHANGED <<backendOrigin, up>>
    /\ UNCHANGED serverVars

\* fetch has resolved with the upstream's response r: res.statusCode and the
\* headers are set, upstream.arrayBuffer() is awaited.
ProxyFetched(r) ==
    /\ px.pc = "fetching"
    /\ px' = [px EXCEPT !.pc = "buffering", !.status = r.status, !.reply = r.body]
    /\ UNCHANGED <<backendOrigin, up, pxRes>>
    /\ UNCHANGED serverVars

\* The upstream's body has arrived: res.end(buf); or reading it has failed:
\* the catch answers 502.
ProxyBuffered(failed) ==
    /\ px.pc = "buffering"
    /\ px' = [px EXCEPT !.pc = "done"]
    /\ pxRes' = Append(pxRes, IF failed THEN [status |-> 502, body |-> "error"]
                               ELSE [status |-> px.status, body |-> px.reply])
    /\ UNCHANGED <<backendOrigin, up>>
    /\ UNCHANGED serverVars

NextProxy ==
    \/ \E m \in MethodIn, url \in UrlIn, body \in BodyIn : ProxyStart(m, url, body)
    \/ \E failed \in BOOLEAN : ProxyBodyRead(failed)
    \/ ProxyFetchThrew
    \/ \E r \in UpstreamIn : ProxyFetched(r)
    \/ \E failed \in BOOLEAN : ProxyBuffered(failed)

\* Requests to a function deployed with any of the BACKEND_ORIGIN settings.
InitAnyBackend ==
    /\ InitPlots /\ InitTax /\ InitAuth /\ InitCors /\ backendOrigin \in BackendOriginIn /\ InitPx
    /\ InitEditor

SpecProxy == InitAnyBackend /\ [][NextProxy]_vars

----------------------------------------------------------------------------
(* The editor (src/routes/Profile.jsx): the node list, its undo history,   *)
(* and saving and loading it through /api/plots                            *)

MaxNodes == 2       \* nodes ever placed
MaxSession == 4     \* arrays the editor creates in a session of saving and loading
MaxEdits == 52      \* arrays the editor creates in a session of editing
MaxUndos == 2       \* undo actions that change the history

\* const limit = 50
limit == 50

\* A value of the history is an array: a reference, and what it holds.  Two
\* arrays that hold the same are still two values to ===.
Array(ref, v) == [ref |-> ref, v |-> v]

\* s.slice(1) and s.slice(0, -1)
slice1(s) == IF s = <<>> THEN <<>> ELSE Tail(s)
sliceButLast(s) == IF s = <<>> THEN <<>> ELSE SubSeq(s, 1, Len(s) - 1)

RECURSIVE filterOut(_, _)
\* prev.filter((n) => n.id !== nodeId)
filterOut(s, nodeId) ==
    IF s = <<>> THEN <<>>
    ELSE IF Head(s).id = nodeId THEN filterOut(Tail(s), nodeId)
         ELSE <<Head(s)>> \o filterOut(Tail(s), nodeId)

\* action.updater: a function of the present value (one that returns prev
\* itself, () => [], [...prev, node], prev.filter(...)), or a value.
ReturnPrev == [fn |-> "prev"]
NewArray(ref) == [fn |-> "empty", ref |-> ref]
Spread(ref, node) == [fn |-> "spread", ref |-> ref, node |-> node]
Filter(ref, nodeId) == [fn |-> "filter", ref |-> ref, nodeId |-> nodeId]
Value(ref, v) == [fn |-> "value", ref |-> ref, v |-> v]

\* typeof action.updater === 'function' ? action.updater(state.present) : action.updater
applyUpdater(updater, present) ==
    CASE updater.fn = "prev" -> present
      [] updater.fn = "empty" -> Array(updater.ref, <<>>)
      [] updater.fn = "spread" -> Array(updater.ref, Append(present.v, updater.node))
      [] updater.fn = "filter" -> Array(updater.ref, filterOut(present.v, updater.nodeId))
      [] updater.fn = "value" -> Array(updater.ref, updater.v)

\* case 'set' with no limit: past grows with every edit.
historySet_unbounded(state, updater) ==
    LET next == applyUpdater(updater, state.present)
    IN IF next.ref = state.present.ref THEN state
       ELSE [past |-> Append(state.past, state.present), present |-> next, future |-> <<>>]

\* case 'set' that keeps future: an edit leaves the undone arrays redoable.
historySet_keepsFuture(state, updater) ==
    LET next == applyUpdater(updater, state.present)
        past == IF Len(state.past) >= limit THEN slice1(state.past) ELSE state.past
    IN IF next.ref = state.present.ref THEN state
       ELSE [past |-> Append(past, state.present), present |-> next, future |-> state.future]

historySet(state, updater) ==
    LET next == applyUpdater(updater, state.present)
        past == IF Len(state.past) >= limit THEN slice1(state.past) ELSE state.past
    IN IF next.ref = state.present.ref THEN state
       ELSE [past |-> Append(past, state.present), present |-> next, future |-> <<>>]

\* case 'undo' that forgets the present: future is left as it was.
historyUndo_forgets(state) ==
    IF state.past = <<>> THEN state
    ELSE [past |-> sliceButLast(state.past),
          present |-> state.past[Len(state.past)],
          future |-> state.future]

historyUndo(state) ==
    IF state.past = <<>> THEN state
    ELSE [past |-> sliceButLast(state.past),
          present |-> state.past[Len(state.past)],
          future |-> <<state.present>> \o state.future]

historyRedo(state) ==
    IF state.future = <<>> THEN state
    ELSE [past |-> Append(state.past, state.present),
          present |-> state.future[1],
          future |-> slice1(state.future)]

historyReset(value) == [past |-> <<>>, present |-> value, future |-> <<>>]

historyReducer(state, action) ==
    CASE action.type = "set" -> historySet(state, action.updater)
      [] action.type = "undo" -> historyUndo(state)
      [] action.type = "redo" -> historyRedo(state)
      [] action.type = "reset" -> historyReset(action.value)
      [] OTHER -> state

\* nodesHistory.value
nodes == nodesHistory.present.v

\* No effect: selectedId is left as it is when its node has gone.
selectionEffect_none(ns, sel) == sel

\* useEffect on [nodes, selectedId]: a selectedId that names no node of the
\* list is set to null.
selectionEffect(ns, sel) ==
    IF sel # 0 /\ ~(\E i \in 1..Len(ns) : ns[i].id = sel) THEN 0 ELSE sel

\* The frame of an action of the editor that calls no route; the effect runs
\* on the new node list.
Offline ==
    /\ selectedId' = selectionEffect(nodesHistory'.present.v, selectedId)
    /\ UNCHANGED <<ed, stateCast, gesture>>
    /\ UNCHANGED serverNoEditor

\* setNodes(updater): an updater that returns prev, or makes an array.
Set(fresh) ==
    /\ fresh => edits < MaxEdits
    /\ nodesHistory' = historyReducer(nodesHistory,
                          [type |-> "set",
                           updater |-> IF fresh THEN NewArray(edits + 1) ELSE ReturnPrev])
    /\ edits' = IF fresh THEN edits + 1 ELSE edits
    /\ UNCHANGED undos
    /\ Offline

\* nodesHistory.undo
Undo ==
    /\ undos < MaxUndos
    /\ nodesHistory' = historyReducer(nodesHistory, [type |-> "undo"])
    /\ undos' = IF nodesHistory' # nodesHistory THEN undos + 1 ELSE undos
    /\ UNCHANGED edits
    /\ Offline

\* nodesHistory.redo
Redo ==
    /\ nodesHistory' = historyReducer(nodesHistory, [type |-> "redo"])
    /\ UNCHANGED <<edits, undos>>
    /\ Offline

\* nodesHistory.reset(value)
Reset ==
    /\ edits < MaxEdits
    /\ nodesHistory' = historyReducer(nodesHistory,
                          [type |-> "reset", value |-> Array(edits + 1, <<>>)])
    /\ edits' = edits + 1
    /\ UNCHANGED undos
    /\ Offline

NextHistory ==
    \/ \E fresh \in BOOLEAN : Set(fresh)
    \/ Undo
    \/ Redo
    \/ Reset

SpecHistory == Init /\ [][NextHistory]_vars

\* The assets of the library the editor places, and where it places them.
AssetIn == {[_id |-> "a1", name |-> "KICK DRUM"], [_id |-> "a2", name |-> "GTR"]}
XIn == {0, 10}
YIn == {0}

\* getDefaultProfile(asset), the channel list holding no row for the asset
getDefaultProfile(a) ==
    IF a.name = "KICK DRUM"
    THEN [instrument |-> "KICK DRUM", mic |-> "Kick Mic (Beta 52/B91)",
          stand |-> "Short Boom", notes |-> "", cables |-> ""]
    ELSE [instrument |-> a.name, mic |-> "", stand |-> "", notes |-> "", cables |-> ""]

\* The node addNodeAt appends; id stands for uid().  A scale is held in
\* hundredths: scale: 1 is 100.
newNode(id, asset, x, y) ==
    [id |-> id, type |-> "asset", assetId |-> asset._id, x |-> x, y |-> y,
     rotation |-> 0, scale |-> 100, label |-> "", flipX |-> FALSE, locked |-> FALSE,
     profile |-> getDefaultProfile(asset)]

\* The paths stagePlotSchema declares for an element of state.
StateFields == {"id", "type", "x", "y", "rotation", "scale", "label", "flipX", "locked",
                "assetId"}

\* stagePlotSchema.state declares its element as { id: String, type: String,
\* x: Number, ... }.  Mongoose reads a declaration that has a key `type`
\* naming a type as a path of that type with the other keys as options:
\* state is then an array of strings, and a node, a plain object, cannot be
\* cast to a string.  Read as the fields of a subdocument, the declaration
\* keeps of each node the declared paths and gives it an _id.
StateCastIn == {"subdocuments", "strings"}

castFails(cast, state) == cast = "strings" /\ state # <<>>

castNode(n) ==
    [f \in StateFields \cup {"_id"} |-> IF f = "_id" THEN "ObjectId" ELSE n[f]]

castState(state) == [i \in 1..Len(state) |-> castNode(state[i])]

\* The signed-in user of the editor.
Me == 1

NoReply == [status |-> 0, _id |-> 0, state |-> <<>>]

\* What POST /api/plots does with { plotId, name, state } of the user, and
\* what it answers.
postPlots(ps, cast, plotId, state) ==
    IF castFails(cast, state)
    THEN [plots |-> ps, reply |-> [NoReply EXCEPT !.status = 500]]
    ELSE IF plotId # NoPlotId
         THEN LET res == StagePlot_findOneAndUpdate(ps, plotId, Me, castState(state), Untitled)
              IN IF res.updated = {}
                 THEN [plots |-> res.plots, reply |-> [NoReply EXCEPT !.status = 404]]
                 ELSE [plots |-> res.plots,
                       reply |-> [NoReply EXCEPT !.status = 200, !._id = plotId]]
         ELSE [plots |-> StagePlot_create(ps, Me, Untitled, castState(state)),
               reply |-> [NoReply EXCEPT !.status = 201, !._id = Cardinality(ps) + 1]]

\* What GET /api/plots/:id answers to the user.
getPlot(ps, id) ==
    LET plot == StagePlot_findOne(ps, id, Me)
    IN IF plot = {} THEN [NoReply EXCEPT !.status = 404]
       ELSE LET p == CHOOSE q \in plot : TRUE
            IN [status |-> 200, _id |-> p._id, state |-> p.state]

\* setNodes dispatching 'reset': the history is begun anew with the value.
setNodes_reset(state, updater) ==
    historyReducer(state, [type |-> "reset",
                           value |-> applyUpdater(updater, state.present)])

\* const setNodes = nodesHistory.set: dispatch({ type: 'set', updater })
setNodes(state, updater) ==
    historyReducer(state, [type |-> "set", updater |-> updater])

\* The frame of an edit of the canvas.
Edit ==
    /\ UNCHANGED <<undos, ed, stateCast, gesture>>
    /\ UNCHANGED serverNoEditor

\* addNodeAt(asset, x, y)
AddNodeAt(asset, x, y) ==
    /\ edits < MaxSession
    /\ Len(nodes) < MaxNodes
    /\ nodesHistory' = historyReducer(nodesHistory,
                          [type |-> "set",
                           updater |-> Spread(edits + 1, newNode(edits + 1, asset, x, y))])
    /\ edits' = edits + 1
    /\ selectedId' = selectionEffect(nodesHistory'.present.v, edits + 1)
    /\ Edit

\* deleteNode(nodeId), of the icon shown on the selected node
DeleteNode(nodeId) ==
    /\ edits < MaxSession
    /\ nodeId = selectedId
    /\ nodesHistory' = historyReducer(nodesHistory,
                          [type |-> "set", updater |-> Filter(edits + 1, nodeId)])
    /\ edits' = edits + 1
    /\ selectedId' = selectionEffect(nodesHistory'.present.v,
                                     IF selectedId = nodeId THEN 0 ELSE selectedId)
    /\ Edit

\* onSelect of a node on the canvas; a press on the empty stage deselects.
Select(nodeId) ==
    /\ nodeId # selectedId
    /\ nodeId = 0 \/ \E i \in 1..Len(nodes) : nodes[i].id = nodeId
    /\ selectedId' = nodeId
    /\ UNCHANGED <<nodesHistory, edits, undos, ed, stateCast, gesture>>
    /\ UNCHANGED serverNoEditor

\* The button New: an empty canvas that is no saved plot.
NewPlot ==
    /\ edits < MaxSession
    /\ nodesHistory' = setNodes(nodesHistory, NewArray(edits + 1))
    /\ edits' = edits + 1
    /\ ed' = [ed EXCEPT !.currentPlotId = NoPlotId, !.plotPickerId = NoPlotId]
    /\ selectedId' = 0
    /\ UNCHANGED <<undos, stateCast, gesture>>
    /\ UNCHANGED serverNoEditor

\* The picker of saved plots: setPlotPickerId
PickPlot(id) ==
    /\ id \in ed.savedPlots
    /\ ed.plotPickerId # id
    /\ ed' = [ed EXCEPT !.plotPickerId = id]
    /\ UNCHANGED <<nodesHistory, edits, undos, stateCast, selectedId, gesture>>
    /\ UNCHANGED serverNoEditor

\* savePlot up to its await: API.savePlot({ plotId, name, state: nodes }), and
\* the route's handling of it.  The buttons are disabled while isBusy.
\* Without auth.user it shows an error and returns.
SavePlot ==
    /\ ed.pc = "idle"
    /\ IF ~ed.user
       THEN /\ ed' = [ed EXCEPT !.error = TRUE]
            /\ UNCHANGED plots
       ELSE /\ ed.currentPlotId = NoPlotId => Cardinality(plots) < MaxPlots
            /\ LET res == postPlots(plots, stateCast, ed.currentPlotId, nodes)
               IN /\ plots' = res.plots
                  /\ ed' = [ed EXCEPT !.pc = "saving", !.sending = nodes,
                                      !.reply = res.reply, !.error = FALSE]
    /\ UNCHANGED <<nodesHistory, edits, undos, stateCast, selectedId, gesture>>
    /\ UNCHANGED <<users, nextUid, feedback, reqs, resp>>
    /\ UNCHANGED <<taxVars, authVars, corsVars, proxyVars, startVars, pngVars>>

\* savePlot after its await: the plot id is kept and the list of saved plots
\* is read again; a response that is not ok is thrown and shown.
SavePlotDone ==
    /\ ed.pc = "saving"
    /\ IF ed.reply.status \in {200, 201}
       THEN ed' = [ed EXCEPT !.pc = "idle",
                             !.currentPlotId = ed.reply._id,
                             !.plotPickerId = ed.reply._id,
                             !.savedPlots = IF ed.user
                                            THEN {p._id : p \in StagePlot_find(plots, Me)}
                                            ELSE @,
                             !.error = ~ed.user,
                             !.saved[ed.reply._id] = [known |-> TRUE, v |-> ed.sending],
                             !.reply = NoReply]
       ELSE ed' = [ed EXCEPT !.pc = "idle", !.error = TRUE, !.reply = NoReply]
    /\ UNCHANGED <<nodesHistory, edits, undos, stateCast, selectedId, gesture>>
    /\ UNCHANGED serverNoEditor

\* loadPlot up to its await: API.getPlot(id), and the route's answer.
\* Without auth.user it shows an error and returns.
LoadPlot ==
    /\ ed.pc = "idle"
    /\ ed.plotPickerId # NoPlotId
    /\ edits < MaxSession
    /\ IF ~ed.user
       THEN ed' = [ed EXCEPT !.error = TRUE]
       ELSE ed' = [ed EXCEPT !.pc = "loading",
                             !.reply = getPlot(plots, ed.plotPickerId),
                             !.error = FALSE]
    /\ UNCHANGED <<nodesHistory, edits, undos, stateCast, selectedId, gesture>>
    /\ UNCHANGED serverNoEditor

\* loadPlot after its await: setNodes(loaded.state)
LoadPlotDone ==
    /\ ed.pc = "loading"
    /\ IF ed.reply.status = 200
       THEN /\ nodesHistory' = setNodes(nodesHistory, Value(edits + 1, ed.reply.state))
            /\ edits' = edits + 1
            /\ ed' = [ed EXCEPT !.pc = "idle", !.currentPlotId = ed.reply._id,
                                !.reply = [NoReply EXCEPT !.status = 200,
                                                          !._id = ed.reply._id]]
            /\ selectedId' = 0
       ELSE /\ ed' = [ed EXCEPT !.pc = "idle", !.error = TRUE, !.reply = NoReply]
            /\ UNCHANGED <<nodesHistory, edits, selectedId>>
    /\ UNCHANGED <<undos, stateCast, gesture>>
    /\ UNCHANGED serverNoEditor

\* auth.logout(): the route clears the cookie, then setUser(null).  A
\* request that is in flight is answered as it was handled.
logout ==
    /\ ed.user
    /\ ed' = [ed EXCEPT !.user = FALSE]
    /\ UNCHANGED <<nodesHistory, edits, undos, stateCast, selectedId, gesture>>
    /\ UNCHANGED serverNoEditor

NextSaveLoad ==
    \/ \E asset \in AssetIn, x \in XIn, y \in YIn : AddNodeAt(asset, x, y)
    \/ \E nodeId \in 1..MaxSession : DeleteNode(nodeId)
    \/ \E nodeId \in 0..MaxSession : Select(nodeId)
    \/ NewPlot
    \/ \E id \in PlotIds : PickPlot(id)
    \/ SavePlot
    \/ SavePlotDone
    \/ LoadPlot
    \/ LoadPlotDone

\* The user of the editor is signed in; Mongoose reads the declaration of
\* state in one of the two ways.
InitSignedIn ==
    /\ users = {[_id |-> Me, googleSub |-> "g1"]}
    /\ nextUid = 2
    /\ plots = {}
    /\ feedback = <<>>
    /\ reqs = [c \in Conns |-> Idle]
    /\ resp = NoResp
    /\ InitTax /\ InitAuth /\ InitCors /\ InitProxy
    /\ InitEd
    /\ stateCast \in StateCastIn

SpecSaveLoad == InitSignedIn /\ [][NextSaveLoad]_vars

----------------------------------------------------------------------------
(* The canvas of the editor: selection, the toolbar of the selected node,  *)
(* drag, the transformer and the two-finger gesture                        *)

\* clamp(n, min, max)
clamp(n, min, max) == IF n < min THEN min ELSE IF n > max THEN max ELSE n

\* The bounds 0.25 and 4 of a scale, in hundredths; the factors 1.12 and
\* 1 / 1.12 are 112 / 100 and 100 / 112, rounded down.
ScaleMin == 25
ScaleMax == 400

hasNode(ns, nodeId) == \E i \in 1..Len(ns) : ns[i].id = nodeId

\* nodes.find((n) => n.id === nodeId)
findNode(ns, nodeId) == ns[CHOOSE i \in 1..Len(ns) : ns[i].id = nodeId]

\* selectedNode?.locked
selectedLocked == hasNode(nodes, selectedId) /\ findNode(nodes, selectedId).locked

\* prev.map((n) => (n.id === nodeId ? { ...n, ...patch } : n)), per field
rotateNode(ns, nodeId, deltaDeg) ==
    [i \in 1..Len(ns) |->
        IF ns[i].id = nodeId THEN [ns[i] EXCEPT !.rotation = @ + deltaDeg] ELSE ns[i]]

scaleNode(ns, nodeId, num, den) ==
    [i \in 1..Len(ns) |->
        IF ns[i].id = nodeId
        THEN [ns[i] EXCEPT !.scale = clamp((@ * num) \div den, ScaleMin, ScaleMax)]
        ELSE ns[i]]

flipNodeX(ns, nodeId) ==
    [i \in 1..Len(ns) |-> IF ns[i].id = nodeId THEN [ns[i] EXCEPT !.flipX = ~@] ELSE ns[i]]

setNodeLabel(ns, nodeId, next) ==
    [i \in 1..Len(ns) |-> IF ns[i].id = nodeId THEN [ns[i] EXCEPT !.label = next] ELSE ns[i]]

toggleNodeLock(ns, nodeId) ==
    [i \in 1..Len(ns) |-> IF ns[i].id = nodeId THEN [ns[i] EXCEPT !.locked = ~@] ELSE ns[i]]

\* onDragEnd: onChange({ x, y })
moveNode(ns, nodeId, x, y) ==
    [i \in 1..Len(ns) |->
        IF ns[i].id = nodeId THEN [ns[i] EXCEPT !.x = x, !.y = y] ELSE ns[i]]

\* onTransformEnd: onChange({ scale, rotation, flipX }); onStageTouchMove:
\* { ...n, scale, rotation }
transformNode(ns, nodeId, scale, rotation, flipX) ==
    [i \in 1..Len(ns) |->
        IF ns[i].id = nodeId
        THEN [ns[i] EXCEPT !.scale = scale, !.rotation = rotation, !.flipX = flipX]
        ELSE ns[i]]

\* moveLayer: the node is taken out of the list and put back delta places on.
moveLayer(ns, nodeId, delta) ==
    LET from == CHOOSE i \in 1..Len(ns) : ns[i].id = nodeId
        to == clamp(from + delta, 1, Len(ns))
        without == SubSeq(ns, 1, from - 1) \o SubSeq(ns, from + 1, Len(ns))
    IN SubSeq(without, 1, to - 1) \o <<ns[from]>> \o SubSeq(without, to, Len(without))

\* onDuplicate: [...prev, { ...src, id, x: src.x + 24, y: src.y + 24 }]
duplicateNode(ns, nodeId, id) ==
    LET src == findNode(ns, nodeId)
    IN Append(ns, [src EXCEPT !.id = id, !.x = @ + 24, !.y = @ + 24])

\* The icons of NodeActions that are disabled on a locked node.
LockedIcons == {"content_copy", "text_fields", "arrow_upward", "arrow_downward",
                "zoom_in", "zoom_out", "flip", "rotate_right", "rotate_left"}

\* The node list a press of the icon asks setNodes for, on the selected node.
iconResult(icon, ns, nodeId, id) ==
    CASE icon = "content_copy" -> duplicateNode(ns, nodeId, id)
      [] icon = "text_fields" -> setNodeLabel(ns, nodeId, "L")
      [] icon = "arrow_upward" -> moveLayer(ns, nodeId, 1)
      [] icon = "arrow_downward" -> moveLayer(ns, nodeId, -1)
      [] icon = "zoom_in" -> scaleNode(ns, nodeId, 112, 100)
      [] icon = "zoom_out" -> scaleNode(ns, nodeId, 100, 112)
      [] icon = "flip" -> flipNodeX(ns, nodeId)
      [] icon = "rotate_right" -> rotateNode(ns, nodeId, 15)
      [] icon = "rotate_left" -> rotateNode(ns, nodeId, -15)
      [] icon = "lock" -> toggleNodeLock(ns, nodeId)

\* moveLayer returns prev itself when the node stays where it is.
returnsPrev(icon, ns, nodeId) ==
    icon \in {"arrow_upward", "arrow_downward"} /\ iconResult(icon, ns, nodeId, 0) = ns

\* The frame of an action on the canvas.
OnCanvas ==
    /\ UNCHANGED <<undos, ed, stateCast>>
    /\ UNCHANGED serverNoEditor

\* NodeActionIcon onClick / onTap on the toolbar of the selected node:
\* nothing happens when the icon is disabled.
NodeAction(icon) ==
    /\ hasNode(nodes, selectedId)
    /\ edits < MaxSession
    /\ icon = "content_copy" => Len(nodes) < MaxNodes
    /\ IF selectedLocked /\ icon \in LockedIcons
       THEN UNCHANGED <<nodesHistory, edits, selectedId>>
       ELSE /\ nodesHistory' = historyReducer(nodesHistory,
                  [type |-> "set",
                   updater |-> IF returnsPrev(icon, nodes, selectedId) THEN ReturnPrev
                               ELSE Value(edits + 1,
                                          iconResult(icon, nodes, selectedId, edits + 1))])
            /\ edits' = IF returnsPrev(icon, nodes, selectedId) THEN edits ELSE edits + 1
            /\ selectedId' = selectionEffect(nodesHistory'.present.v,
                                IF icon = "content_copy" THEN edits + 1 ELSE selectedId)
    /\ UNCHANGED gesture
    /\ OnCanvas

\* A node is dragged to (x, y): draggable={!locked}.
DragEnd(nodeId, x, y) ==
    /\ hasNode(nodes, nodeId)
    /\ ~findNode(nodes, nodeId).locked
    /\ edits < MaxSession
    /\ nodesHistory' = historyReducer(nodesHistory,
          [type |-> "set", updater |-> Value(edits + 1, moveNode(nodes, nodeId, x, y))])
    /\ edits' = edits + 1
    /\ UNCHANGED <<selectedId, gesture>>
    /\ OnCanvas

\* The transformer, attached to the selected node unless it is locked.
TransformEnd(scale, rotation, flipX) ==
    /\ hasNode(nodes, selectedId)
    /\ ~selectedLocked
    /\ edits < MaxSession
    /\ nodesHistory' = historyReducer(nodesHistory,
          [type |-> "set",
           updater |-> Value(edits + 1,
                             transformNode(nodes, selectedId,
                                           clamp(scale, ScaleMin, ScaleMax), rotation, flipX))])
    /\ edits' = edits + 1
    /\ UNCHANGED <<selectedId, gesture>>
    /\ OnCanvas

NoGesture == [set |-> FALSE, nodeId |-> 0, startScale |-> 0, startRotation |-> 0]

\* onTouchStart of the Stage: onStagePointerDown, then onStageTouchStart, both
\* of the render in which the touch arrives.  With fewer than two touches the
\* gesture is dropped; with two it starts on the selected node, if there is
\* one.  A touch that begins on the empty stage deselects.
TouchStart(touches, onStage) ==
    /\ gesture' = IF touches < 2 THEN NoGesture
                  ELSE IF ~hasNode(nodes, selectedId) THEN gesture
                  ELSE [set |-> TRUE, nodeId |-> selectedId,
                        startScale |-> findNode(nodes, selectedId).scale,
                        startRotation |-> findNode(nodes, selectedId).rotation]
    /\ selectedId' = IF onStage THEN 0 ELSE selectedId
    /\ gesture' # gesture \/ selectedId' # selectedId
    /\ UNCHANGED <<nodesHistory, edits>>
    /\ OnCanvas

\* onStageTouchMove with two touches: the fingers are num / den as far apart
\* as at the start, and turned by deltaDeg.
TouchMove(num, den, deltaDeg) ==
    /\ gesture.set
    /\ edits < MaxSession
    /\ nodesHistory' = historyReducer(nodesHistory,
          [type |-> "set",
           updater |-> Value(edits + 1,
                [i \in 1..Len(nodes) |->
                    IF nodes[i].id = gesture.nodeId
                    THEN [nodes[i] EXCEPT
                            !.scale = clamp((gesture.startScale * num) \div den,
                                            ScaleMin, ScaleMax),
                            !.rotation = gesture.startRotation + deltaDeg]
                    ELSE nodes[i]])])
    /\ edits' = edits + 1
    /\ selectedId' = selectionEffect(nodesHistory'.present.v, selectedId)
    /\ UNCHANGED gesture
    /\ OnCanvas

IconIn == LockedIcons \cup {"lock"}

NextCanvas ==
    \/ \E asset \in {a \in AssetIn : a._id = "a1"} : AddNodeAt(asset, 0, 0)
    \/ \E nodeId \in 1..MaxSession : DeleteNode(nodeId)
    \/ \E nodeId \in 0..MaxSession : Select(nodeId)
    \/ \E icon \in IconIn : NodeAction(icon)
    \/ \E nodeId \in 1..MaxSession : DragEnd(nodeId, 50, 60)
    \/ TransformEnd(150, 45, TRUE)
    \/ \E touches \in {1, 2}, onStage \in BOOLEAN : TouchStart(touches, onStage)
    \/ TouchMove(2, 1, 30)
    \/ Undo
    \/ Redo
    \/ NewPlot

SpecCanvas == Init /\ [][NextCanvas]_vars

\* A session of the signed-in editor: nodes are added, duplicated and
\* deleted, edits undone and redone, plots saved, loaded and begun anew.
NextSession ==
    \/ \E asset \in {a \in AssetIn : a._id = "a1"} : AddNodeAt(asset, 0, 0)
    \/ \E nodeId \in 1..MaxSession : DeleteNode(nodeId)
    \/ \E nodeId \in 0..MaxSession : Select(nodeId)
    \/ NewPlot
    \/ \E id \in PlotIds : PickPlot(id)
    \/ SavePlot
    \/ SavePlotDone
    \/ LoadPlot
    \/ LoadPlotDone
    \/ NodeAction("content_copy")
    \/ Undo
    \/ Redo

SpecSession == InitSignedIn /\ [][NextSession]_vars

\* Saving, loading and starting anew, signed in and after signing out.
NextSave ==
    \/ \E asset \in {a \in AssetIn : a._id = "a1"} : AddNodeAt(asset, 0, 0)
    \/ NewPlot
    \/ \E id \in PlotIds : PickPlot(id)
    \/ SavePlot
    \/ SavePlotDone
    \/ LoadPlot
    \/ LoadPlotDone
    \/ logout

SpecSave == InitSignedIn /\ [][NextSave]_vars

----------------------------------------------------------------------------
(* Claims on the plot and feedback routes (checked under SpecPlots) *)

ownerOf(id) == {p.userId : p \in {q \in plots : q._id = id}}

\* The session token of a request is missing, fails verification, or has
\* a uid that names no User record.
Unauthenticated(token) ==
    \/ token = NoToken
    \/ token.t = "bad"
    \/ token.t = "signed" /\ ~(\E u \in users : u._id = token.uid)

\* C1: a request to one of the four guarded routes whose session token is
\* missing, fails verification, or has a uid that names no user is answered
\* 401 by requireAuth; the route handler never runs for it (no connection
\* changes) and no plot or feedback record is created or modified.
C1_UnauthenticatedGets401 ==
    [][(resp'.kind = "requireAuth" /\ Unauthenticated(resp'.token)) =>
          /\ resp'.status = 401
          /\ reqs' = reqs
          /\ plots' = plots
          /\ feedback' = feedback]_vars

\* A token the server signed, for a user whose record has since gone, was
\* answered 401 while plots are stored.
C1_Witness ==
    /\ resp.kind = "requireAuth" /\ resp.status = 401
    /\ resp.token.t = "signed"
    /\ plots # {}

\* C2: what GET /api/plots and GET /api/plots/:id answer to user U is
\* determined by the plots whose userId is U alone: the list is exactly the
\* summaries of U's plots, GET by id answers one of U's plots or 404, and the
\* id of a plot of another user is answered 404.
C2_ReadsIsolatedPerUser ==
    LET own == {p \in plots : p.userId = resp.user}
    IN /\ resp.kind = "GET /api/plots" =>
             /\ resp.status = 200
             /\ resp.list = {plotSummary(p) : p \in own}
             /\ \A e \in resp.list : ownerOf(e._id) = {resp.user}
       /\ (resp.kind = "GET /api/plots/:id" /\ isValidObjectId(resp.plotId)) =>
             IF \E p \in own : p._id = resp.plotId
                THEN /\ resp.status = 200
                     /\ \E p \in own : /\ p._id = resp.plotId
                                       /\ resp.doc = [_id |-> p._id,
                                                      name |-> nameOrUntitled(p.name),
                                                      state |-> p.state]
                ELSE resp.status = 404 /\ resp.doc = NoDoc

\* User U asked for the id of a plot that another user owns, and got 404.
C2_Witness ==
    /\ resp.kind = "GET /api/plots/:id" /\ resp.status = 404
    /\ \E p \in plots : p._id = resp.plotId /\ p.userId # resp.user

C4_OwnerFixedAtCreation ==
    /\ [](\A p, q \in plots : p._id = q._id => p = q)
    /\ [][/\ \A p \in plots : \E q \in plots' : q._id = p._id /\ q.userId = p.userId
          /\ \A q \in plots' :
                (~\E p \in plots : p._id = q._id) =>
                    /\ resp'.kind = "POST /api/plots" /\ resp'.status = 201
                    /\ resp'.doc._id = q._id
                    /\ q.userId = resp'.user /\ q.userId # 0]_vars

\* A plot of one user has been saved over with a plotId while another
\* user is signed in and owns a plot too.
C4_Witness ==
    /\ resp.kind = "POST /api/plots" /\ resp.status = 200
    /\ \E p, q \in plots : p.userId # q.userId
    /\ Cardinality(users) = 2

----------------------------------------------------------------------------
(* Claims on the taxonomy and the asset library *)

\* The taxonomy the routes read: the document Taxonomy.findOne answers, or no
\* categories when there is none yet.
taxonomyCategories ==
    IF Taxonomy_findOne(taxonomies) = 0 THEN <<>>
    ELSE taxonomies[Taxonomy_findOne(taxonomies)].categories

distinct(seq) == \A i, j \in 1..Len(seq) : seq[i] = seq[j] => i = j

\* C7: the taxonomy is a singleton: in every reachable state, whatever the
\* interleaving of taxonomy reads, category and section additions, uploads
\* and edits from an empty database, at most one Taxonomy document exists.
C7_AtMostOneTaxonomy == Len(taxonomies) <= 1

\* C8: in every reachable state the category names of the taxonomy are
\* pairwise distinct, and so are the section names inside each category.
C8_NamesPairwiseDistinct ==
    /\ distinct([i \in 1..Len(taxonomyCategories) |-> taxonomyCategories[i].name])
    /\ \A i \in 1..Len(taxonomyCategories) : distinct(taxonomyCategories[i].sections)

\* C9: the taxonomy only grows: in every step every Taxonomy document stays,
\* every category in it stays where it is under the name it has, and every
\* section of every category stays where it is; so a category or section
\* that is present once is present ever after, under asset deletes, edits and
\* saves of a copy read before another request's save.
C9_TaxonomyOnlyGrows ==
    [][\A d \in 1..Len(taxonomies) :
          /\ d <= Len(taxonomies')
          /\ \A i \in 1..Len(taxonomies[d].categories) :
                /\ i <= Len(taxonomies'[d].categories)
                /\ taxonomies'[d].categories[i].name = taxonomies[d].categories[i].name
                /\ \A k \in 1..Len(taxonomies[d].categories[i].sections) :
                      /\ k <= Len(taxonomies'[d].categories[i].sections)
                      /\ taxonomies'[d].categories[i].sections[k]
                            = taxonomies[d].categories[i].sections[k]]_vars

\* A save of a copy read before another request's save has been applied to a
\* taxonomy that held a category with a section, and both are still there.
C9_Witness ==
    /\ admResp.stale /\ admResp.status \in {200, 201}
    /\ Len(taxonomyCategories) >= 2
    /\ \E i \in 1..Len(taxonomyCategories) : taxonomyCategories[i].sections # <<>>

\* C10: after every completed upload or edit, each stored asset whose
\* category is non-empty has a taxonomy category of exactly that name, and
\* if its section is non-empty that category lists exactly that section.
C10_AssetsInsideTaxonomy ==
    (/\ admResp.kind \in {"POST /api/admin/assets", "PATCH /api/admin/assets/:id"}
     /\ admResp.status \in {200, 201})
    => \A a \in assets :
          a.category # Empty
          => \E i \in 1..Len(taxonomyCategories) :
                /\ taxonomyCategories[i].name = a.category
                /\ a.section # Empty => includes(taxonomyCategories[i].sections, a.section)

----------------------------------------------------------------------------
(* Claims on the life of an asset (checked under SpecAssets) *)

AllowedTypes == {"image/png", "image/x-png", "image/svg+xml"}

\* C12: upload validation precedes storage: an upload that is rejected (400
\* for a missing file, 500 for a type outside PNG/SVG or a file over 2 MiB)
\* writes no blob and creates no Asset record, and no blob of another type is
\* ever in the bucket; an accepted upload's blob is in the bucket before its
\* record is created, and the record's fileId is that blob's id.
C12_ValidationPrecedesStorage ==
    /\ [][(admResp'.kind = "POST /api/admin/assets" /\ admResp'.status \in {400, 500})
            => (files' = files /\ assets' = assets)]_vars
    /\ [](\A f \in files : f.contentType \in AllowedTypes)
    /\ [][\A a \in assets' :
             (~\E b \in assets : b._id = a._id)
             => /\ \E f \in files : f._id = a.fileId
                /\ \A c \in Conns : adm[c].pc = "stored" /\ adm'[c].pc # "stored"
                                       => a.fileId = adm[c].file]_vars

\* An upload is rejected while the record of an accepted upload, and its blob,
\* are stored.
C12_Witness ==
    /\ admResp.kind = "POST /api/admin/assets" /\ admResp.status \in {400, 500}
    /\ admResp.asset = 0
    /\ \E a \in assets : \E f \in files : f._id = a.fileId

----------------------------------------------------------------------------
(* Claims on sign-in (checked under SpecAuth) *)

\* C13: users are keyed by the Google subject id: in every reachable state,
\* whatever the interleaving of sign-ins, at most one User record exists per
\* googleSub; and when a sign-in has just succeeded, the record of its
\* subject holds the email, name and picture of the verified token (''
\* for a field the token does not carry).
C13_OneUserPerGoogleSub ==
    /\ \A u1, u2 \in users : u1.googleSub = u2.googleSub => u1 = u2
    /\ authResp.status = 200
          => \E u \in users :
                /\ u.googleSub = authResp.credential.sub
                /\ u._id = authResp.cookie.uid
                /\ u.email = stringOrEmpty(authResp.credential.email)
                /\ u.name = stringOrEmpty(authResp.credential.name)
                /\ u.picture = stringOrEmpty(authResp.credential.picture)

\* Two first sign-ins of one subject ran concurrently: both matched no
\* record, one inserted, and the insert of the other met the unique index
\* and was answered 401; one record of the subject exists.
C13_Witness ==
    /\ authResp.status = 401
    /\ authResp.credential.valid
    /\ authResp.credential.sub \in GoogleSubs
    /\ Cardinality({u \in users : u.googleSub = authResp.credential.sub}) = 1

presentSubject(cr) == cr.sub \notin {Undefined, ""}

\* C14: the sp_session cookie is set only by a 200 answer to a credential
\* that was given, verified and carries a subject, on a server with both
\* secrets, and it names the User record of that subject; a sign-in on a
\* server without GOOGLE_CLIENT_ID or SESSION_SECRET is answered 500, else one
\* without credential 400, else one whose credential fails verification or
\* has no subject 401, and these answers set no cookie and leave the User
\* records as they are.
C14_CookieOnlyAfterVerification ==
    /\ [](authResp.cookie # NoToken
            => /\ authResp.status = 200
               /\ env.GOOGLE_CLIENT_ID /\ env.SESSION_SECRET
               /\ authResp.credential.given /\ authResp.credential.valid
               /\ presentSubject(authResp.credential)
               /\ \E u \in users : /\ u._id = authResp.cookie.uid
                                   /\ u.googleSub = authResp.credential.sub)
    /\ [][authResp'.status # 0
            => LET cr == authResp'.credential
               IN IF ~env.GOOGLE_CLIENT_ID \/ ~env.SESSION_SECRET
                    THEN authResp'.status = 500 /\ authResp'.cookie = NoToken /\ users' = users
                  ELSE IF ~cr.given
                    THEN authResp'.status = 400 /\ authResp'.cookie = NoToken /\ users' = users
                  ELSE IF ~cr.valid \/ ~presentSubject(cr)
                    THEN authResp'.status = 401 /\ authResp'.cookie = NoToken /\ users' = users
                  ELSE authResp'.status \in {200, 401}]_vars

\* A credential that does not verify is answered 401 while a user is
\* signed up.
C14_Witness ==
    /\ authResp.status = 401
    /\ authResp.credential.given /\ ~authResp.credential.valid
    /\ presentSubject(authResp.credential)
    /\ \E u \in users : u.googleSub = authResp.credential.sub

----------------------------------------------------------------------------
(* Claims on the CORS allowlist (checked under SpecCors) *)

\* CORS_ORIGIN restricts origins: it is set, and is neither empty nor '*'.
restricted == corsOrigin.set /\ trim(corsOrigin.v) \notin {<<>>, <<"*">>}

\* The origin o is an entry of the comma-separated list CORS_ORIGIN, spaces
\* around an entry aside.
listed(o) ==
    LET v == corsOrigin.v
    IN \E i \in 1..Len(v) : \E j \in i..Len(v) :
          /\ i = 1 \/ v[i - 1] = ","
          /\ j = Len(v) \/ v[j + 1] = ","
          /\ \A k \in i..j : v[k] # ","
          /\ trim(SubSeq(v, i, j)) = o

----------------------------------------------------------------------------
(* Claims on the Vercel function (checked under SpecProxy) *)

\* The path of a URL (what precedes its first '?') and its query (what
\* follows it).
pathOf(url) ==
    IF \E i \in 1..Len(url) : url[i] = QM
        THEN CHOOSE pre \in {SubSeq(url, 1, k) : k \in 0..Len(url)} :
                /\ Len(pre) < Len(url) /\ url[Len(pre) + 1] = QM
                /\ \A j \in 1..Len(pre) : pre[j] # QM
        ELSE url

queryOf(url) ==
    IF pathOf(url) = url THEN <<>> ELSE SubSeq(url, Len(pathOf(url)) + 2, Len(url))

\* C16: the function forwards each request to BACKEND_ORIGIN with the same
\* method, path and query, and with its body unless the method is GET or
\* HEAD; the reply carries the upstream's status and body; with BACKEND_ORIGIN
\* empty or unset it answers 500 and calls no upstream; when the upstream call
\* throws it answers 502; and it sends no response while the request is in
\* flight and exactly one in all once it is done.
C16_ProxyForwards ==
    /\ [](/\ px.pc = "done" => Len(pxRes) = 1
          /\ px.pc # "done" => Len(pxRes) = 0)
    /\ []((px.pc # "idle" /\ (~backendOrigin.set \/ backendOrigin.v = <<>>))
            => /\ ~up.called
               /\ px.pc = "done" /\ pxRes[1].status = 500)
    /\ [](up.called
            => /\ up.method = px.method
               /\ up.url = <<"o">> \o pathOf(px.url)
                              \o (IF queryOf(px.url) = <<>> THEN <<>>
                                  ELSE <<QM>> \o queryOf(px.url))
               /\ up.body = IF px.method \in {"GET", "HEAD"} THEN Undefined ELSE px.body)
    /\ [][(px.pc = "fetching" /\ px'.pc = "done") => pxRes'[1].status = 502]_vars
    /\ [][(px.pc = "buffering" /\ px'.pc = "done")
            => \/ pxRes' = <<[status |-> px.status, body |-> px.reply]>>
               \/ pxRes'[1].status = 502]_vars

\* A POST with a query was forwarded to an origin written with spaces and
\* trailing slashes, and the upstream's 404 and body were relayed.
C16_Witness ==
    /\ backendOrigin.v = <<SP, "o", SL, SL, SP>>
    /\ px.pc = "done" /\ px.method = "POST" /\ px.body = "x"
    /\ queryOf(px.url) # <<>>
    /\ up.called
    /\ pxRes = <<[status |-> 404, body |-> "y"]>>

----------------------------------------------------------------------------
(* Claims on taxonomy names (checked under SpecNames) *)

lowerCase(s) == [i \in 1..Len(s) |-> IF s[i] = "A" THEN "a" ELSE IF s[i] = "S" THEN "s" ELSE s[i]]

\* n and m differ, and differ only in letter case, or only in surrounding
\* whitespace.
caseVariants(n, m) == n # m /\ lowerCase(n) = lowerCase(m)
spaceVariants(n, m) == n # m /\ trim(n) = trim(m)

hasCategory(name) ==
    \E i \in 1..Len(taxonomyCategories) : taxonomyCategories[i].name = name

\* The entry of the category lists the section (the first entry of that
\* name, should concurrent adds have stored the name twice).
hasSection(category, name) ==
    /\ hasCategory(category)
    /\ includes(taxonomyCategories[findCategory(taxonomyCategories, category)].sections, name)

\* The request on connection c goes on to add the category, or the section,
\* under the name n.
addsCategory(c, n) ==
    adm'[c].pc = "save" /\ adm'[c].ch.op = "pushCat" /\ adm'[c].ch.cat = n

addsSection(c, n) ==
    adm'[c].pc = "save" /\ adm'[c].ch.op = "pushSec" /\ adm'[c].ch.sec = n

\* The request is answered 201 at once and nothing is added.
answersPresent(c) ==
    admResp'.status = 201 /\ adm' = adm /\ taxonomies' = taxonomies

\* C17 as stated: names are compared as they are sent: a request to add a
\* category (or a section of category a) under a name the taxonomy does not
\* hold, while it holds a name that differs from it only in letter case or
\* only in surrounding whitespace, treats it as a new name and goes on to add
\* an entry of exactly that name.
C17_Original ==
    [][\A c \in Conns :
          /\ \A n \in VariantCatIn :
                (/\ PostCategory(c, n)
                 /\ Taxonomy_findOne(taxonomies) # 0
                 /\ ~hasCategory(n)
                 /\ \E m \in VariantCatIn :
                       hasCategory(m) /\ (caseVariants(n, m) \/ spaceVariants(n, m)))
                => addsCategory(c, n)
          /\ \A n \in VariantSecIn, shared \in BOOLEAN :
                (/\ PostSection(c, <<"a">>, n, shared)
                 /\ hasCategory(<<"a">>)
                 /\ ~hasSection(<<"a">>, n)
                 /\ \E m \in VariantSecIn :
                       hasSection(<<"a">>, m) /\ (caseVariants(n, m) \/ spaceVariants(n, m)))
                => addsSection(c, n)]_vars

\* C17, amended: names are compared after trimming and in no other way
\* normalized: a request to add a name whose trimmed form the taxonomy does
\* not hold (be it a case variant of a name it holds) goes on to add an entry
\* of the trimmed name; a request to add a name whose trimmed form it holds
\* (a whitespace variant of a stored name, or the name itself) is answered
\* 201 and adds nothing; and every stored name is trimmed, so no two entries
\* differ in surrounding whitespace only.
C17_TrimmedButCaseSensitive ==
    /\ [][\A c \in Conns :
             /\ \A n \in VariantCatIn :
                   (PostCategory(c, n) /\ Taxonomy_findOne(taxonomies) # 0)
                   => IF hasCategory(trim(n)) THEN answersPresent(c)
                      ELSE addsCategory(c, trim(n))
             /\ \A n \in VariantSecIn, shared \in BOOLEAN :
                   (PostSection(c, <<"a">>, n, shared) /\ hasCategory(<<"a">>))
                   => IF hasSection(<<"a">>, trim(n)) THEN answersPresent(c)
                      ELSE addsSection(c, trim(n))]_vars
    /\ [](\A i \in 1..Len(taxonomyCategories) :
             /\ taxonomyCategories[i].name = trim(taxonomyCategories[i].name)
             /\ \A k \in 1..Len(taxonomyCategories[i].sections) :
                   taxonomyCategories[i].sections[k] = trim(taxonomyCategories[i].sections[k]))

\* The taxonomy holds the categories a and A, and in a the sections s and S,
\* and a request to add a category was answered 201.
C17_Witness ==
    /\ hasCategory(<<"a">>) /\ hasCategory(<<"A">>)
    /\ hasSection(<<"a">>, <<"s">>) /\ hasSection(<<"a">>, <<"S">>)
    /\ admResp.kind = "POST /api/admin/taxonomy/categories" /\ admResp.status = 201
    /\ \A c \in Conns : adm[c].pc = "idle"

----------------------------------------------------------------------------
(* Claims on saving and loading a plot (checked under SpecSaveLoad) *)

\* The node lists hold the same nodes in the same order: each loaded node has
\* the declared fields and the input profile of the node sent.
sameNodes(sent, loaded) ==
    /\ Len(loaded) = Len(sent)
    /\ \A i \in 1..Len(sent) :
          /\ \A f \in StateFields : loaded[i][f] = sent[i][f]
          /\ "profile" \in DOMAIN loaded[i]
          /\ loaded[i].profile = sent[i].profile

----------------------------------------------------------------------------
(* Claims on the undo history (checked under SpecHistory) *)

undone == historyReducer(nodesHistory, [type |-> "undo"])
redone == historyReducer(nodesHistory, [type |-> "redo"])

\* C19: undo and redo are inverse: in every history state with a non-empty
\* past, undo followed by redo gives back past, present and future exactly;
\* with a non-empty future, redo followed by undo does; undo on an empty past
\* and redo on an empty future leave the state as it is.
C19_UndoRedoInverse ==
    /\ nodesHistory.past # <<>>
          => /\ undone # nodesHistory
             /\ historyReducer(undone, [type |-> "redo"]) = nodesHistory
    /\ nodesHistory.future # <<>>
          => /\ redone # nodesHistory
             /\ historyReducer(redone, [type |-> "undo"]) = nodesHistory
    /\ nodesHistory.past = <<>> => undone = nodesHistory
    /\ nodesHistory.future = <<>> => redone = nodesHistory

\* A full past was undone by one step: the history has a future, and a past
\* one entry short of the limit.
C19_Witness ==
    /\ undos > 0
    /\ Len(nodesHistory.past) = limit - 1
    /\ nodesHistory.future # <<>>

\* C20: the history is bounded: in every reachable state past holds at most
\* limit (50) entries, and past and future together hold at most limit
\* entries; an edit that arrives when past holds limit entries drops the
\* oldest one and appends the present, so the array dropped can no longer be
\* reached by undo.
C20_HistoryBounded ==
    /\ [](/\ Len(nodesHistory.past) <= limit
          /\ Len(nodesHistory.past) + Len(nodesHistory.future) <= limit)
    /\ [][(Set(TRUE) /\ Len(nodesHistory.past) = limit)
            => /\ nodesHistory'.past = Append(Tail(nodesHistory.past), nodesHistory.present)
               /\ Len(nodesHistory'.past) = limit
               /\ \A i \in 1..limit : nodesHistory'.past[i] # nodesHistory.past[1]]_vars

\* More edits than the limit were made, none undone: past is full and the
\* array the editor started with is no longer in it.
C20_Witness ==
    /\ edits > limit
    /\ undos = 0
    /\ Len(nodesHistory.past) = limit
    /\ nodesHistory.past[1].ref > 0
    /\ nodesHistory.present.ref = edits

\* canRedo: state.future.length > 0
canRedo == nodesHistory.future # <<>>

\* C21: a new edit invalidates redo: a set whose result is another array than
\* the present makes the old present the last entry of past and empties
\* future, so canRedo is false right after it; canRedo turns from false to
\* true by an undo only; a set whose result is the present itself leaves
\* past, present and future as they are.
C21_EditInvalidatesRedo ==
    /\ [][Set(TRUE)
            => /\ nodesHistory'.past # <<>>
               /\ nodesHistory'.past[Len(nodesHistory'.past)] = nodesHistory.present
               /\ nodesHistory'.present # nodesHistory.present
               /\ nodesHistory'.future = <<>>
               /\ ~canRedo']_vars
    /\ [][Set(FALSE) => nodesHistory' = nodesHistory]_vars
    /\ [][(~canRedo /\ canRedo')
            => /\ nodesHistory.past # <<>>
               /\ nodesHistory' = historyReducer(nodesHistory, [type |-> "undo"])]_vars

\* An edit was made after an undo: the array undone is in neither past nor
\* future, and nothing can be redone.
C21_Witness ==
    /\ undos > 0
    /\ ~canRedo
    /\ nodesHistory.present.ref = edits
    /\ nodesHistory.past # <<>>
    /\ nodesHistory.past[Len(nodesHistory.past)].ref < edits - 1

----------------------------------------------------------------------------
(* Claims on start-up and the readiness gate (checked under SpecStart and FairStart) *)

\* C22: no /api route handler runs for a request received while the database
\* is not ready: while readyState is not 1 or the bucket is null, a request
\* under /api that the CORS check lets through is answered 503 by the gate, no
\* handler runs for it and no collection changes; a request received while
\* the database is ready is not answered 503; and the bucket is set only
\* after a connection attempt has succeeded.
C22_NoHandlerBeforeReady ==
    /\ [][\A origin \in OriginIn :
             (Receive(origin, TRUE) /\ ~isBlocked(corsOrigin, origin))
             => IF readyState # 1 \/ ~bucket
                THEN /\ http'.status = 503
                     /\ http'.ran = <<"cors", "check", "gate">>
                     /\ handled' = handled
                     /\ UNCHANGED <<plotVars, taxVars, authVars>>
                ELSE /\ http'.status # 503
                     /\ http'.ran = <<"cors", "check", "gate", "handler">>]_vars
    /\ [](bucket => conn.connected)

\* A request under /api was answered 503 after the connection was lost: the
\* bucket is still set, readyState is not 1, and a request was handled
\* before.
C22_Witness ==
    /\ http.status = 503
    /\ bucket /\ readyState # 1
    /\ handled > 0

\* C23: the server answers requests before the database is connected (a
\* page is served, a request under /api gets 503); a failed connection
\* attempt sets the bucket to null and schedules exactly one further
\* attempt; a successful one sets the bucket and schedules none; at most one
\* attempt is pending or running at any time; and if the database
\* eventually stays reachable, the server eventually is ready.
C23_ConnectionRetry ==
    /\ [](conn.running + conn.timers <= 1)
    /\ [][ConnectRejected
            => /\ ~bucket'
               /\ conn'.timers = conn.timers + 1
               /\ conn'.running = conn.running - 1]_vars
    /\ [][ConnectResolved
            => /\ bucket'
               /\ conn'.timers = conn.timers
               /\ conn'.running = conn.running - 1]_vars
    /\ [][\A origin \in OriginIn, api \in BOOLEAN :
             (Receive(origin, api) /\ ~conn.connected /\ ~isBlocked(corsOrigin, origin))
             => http'.status = IF api THEN 503 ELSE 200]_vars
    /\ (<>[]reachable => <>dbReady)

\* An attempt has failed and its retry is pending: the bucket is null, and a
\* request under /api received since start was answered 503.
C23_Witness ==
    /\ ~conn.connected
    /\ conn.timers = 1 /\ conn.running = 0
    /\ ~bucket /\ readyState = 0
    /\ http.status = 503

----------------------------------------------------------------------------
(* Claims on the canvas (checked under SpecCanvas) *)

\* The fields of a node that a lock is to freeze.
frozen(n) == <<n.x, n.y, n.rotation, n.scale, n.flipX, n.label>>

\* C24: a locked node is frozen: a step of the editor other than undo, redo
\* and New leaves x, y, rotation, scale, flipX and label of every node that
\* is locked before the step and still on the canvas after it as they were
\* (the step that unlocks it changes none of them either); this holds for
\* drag, the transformer, the toolbar icons and the two-finger gesture.
C24_LockedNodeFrozen ==
    [][~(Undo \/ Redo \/ NewPlot)
        => \A i \in 1..Len(nodes) : \A j \in 1..Len(nodes') :
              (nodes[i].locked /\ nodes'[j].id = nodes[i].id)
              => frozen(nodes'[j]) = frozen(nodes[i])]_vars

----------------------------------------------------------------------------
(* Claims on a session of the editor (checked under SpecSession) *)

\* C26: the selection never dangles: in every state of the editor, once the
\* effect on the node list has run, selectedId is null or the id of a node of
\* the current node list, whatever nodes are added, duplicated and deleted,
\* edits undone and redone, plots loaded and begun anew; and a delete, or an
\* undo, that takes the selected node off the canvas leaves nothing selected.
C26_SelectionNeverDangles ==
    /\ [](selectedId = 0 \/ hasNode(nodes, selectedId))
    /\ [][((DeleteNode(selectedId) \/ Undo)
            /\ hasNode(nodes, selectedId) /\ ~hasNode(nodes', selectedId))
           => selectedId' = 0]_vars

\* The creation of the node that was selected has been undone: the canvas is
\* empty, the node is in the future of the history, and nothing is selected.
C26_Witness ==
    /\ undos > 0
    /\ selectedId = 0
    /\ nodes = <<>>
    /\ nodesHistory.future # <<>>
    /\ nodesHistory.future[1].v # <<>>

\* The plot of the signed-in user that the server stores under an id.
storedState(id) == (CHOOSE p \in plots : p._id = id).state

plotIds(ps) == {p._id : p \in ps}

\* C27: the editor keeps saving into the same plot.  The completion of a
\* successful Save makes currentPlotId the id the server returned; a Save with
\* a currentPlotId creates no document and, when accepted, updates that plot;
\* only the completion of a Save, a load and New change currentPlotId; New
\* clears currentPlotId, it then stays cleared until a plot is loaded or a
\* Save sent with no plot id has created one, and a Save with no
\* currentPlotId creates a document when accepted; and a Save while signed
\* out changes nothing on the server and leaves nothing in flight.
C27_SavesIntoSamePlot ==
    /\ [][(SavePlotDone /\ ed.reply.status \in {200, 201})
           => ed'.currentPlotId = ed.reply._id /\ ed.reply._id # NoPlotId]_vars
    /\ [][(SavePlot /\ ed.user /\ ed.currentPlotId # NoPlotId)
           => /\ plotIds(plots') = plotIds(plots)
              /\ ed'.reply.status = 200 => ed'.reply._id = ed.currentPlotId]_vars
    /\ [][ed'.currentPlotId # ed.currentPlotId
           => SavePlotDone \/ LoadPlotDone \/ NewPlot]_vars
    /\ [][NewPlot => ed'.currentPlotId = NoPlotId]_vars
    /\ [][(ed.currentPlotId = NoPlotId /\ ed'.currentPlotId # NoPlotId)
           => LoadPlotDone \/ (SavePlotDone /\ ed.reply.status = 201)]_vars
    /\ [][(SavePlot /\ ed.user /\ ed.currentPlotId = NoPlotId
                    /\ ed'.reply.status \in {200, 201})
           => /\ ed'.reply.status = 201
              /\ Cardinality(plots') = Cardinality(plots) + 1
              /\ ed'.reply._id \notin plotIds(plots)]_vars
    /\ [][(SavePlot /\ ~ed.user) => plots' = plots /\ ed'.pc = "idle"]_vars

----------------------------------------------------------------------------
(* Claims on sessions (checked under SpecAdmin and SpecLogout) *)

\* The routes under /api/admin a caller starts a request on.
AdminRoutes == {"POST /api/admin/assets", "GET /api/admin/taxonomy",
                "POST /api/admin/taxonomy/categories", "POST /api/admin/taxonomy/sections",
                "GET /api/admin/assets", "PATCH /api/admin/assets/:id",
                "DELETE /api/admin/assets/:id", "GET /api/admin/stats"}

\* C28: no /api/admin endpoint checks a session.  While no caller can be
\* authenticated (requireAuth answers every request 401), a request that
\* carries no session token is handed to the handler of every admin route:
\* in every state the handler of asset upload, list, edit and delete, of
\* taxonomy read, add-category and add-section, and of stats can run for it;
\* no admin route ever answers 401; and so the asset library and the
\* taxonomy change although no user exists.
C28_AdminUnguarded ==
    /\ [](\A cookie, bearer \in Tokens : ~authenticated(users, cookie, bearer))
    /\ [][\A c \in Conns, cookie \in Tokens :
              RequireAuth(c, cookie, NoToken) => resp'.status = 401]_vars
    /\ [](\A route \in AdminRoutes : admitted(route, NoToken, NoToken))
    /\ [](admResp.status # 401)
    /\ [](\A c \in Conns : adm[c].pc = "idle" =>
            /\ ENABLED (admitted("GET /api/admin/taxonomy", NoToken, NoToken)
                        /\ GetTaxonomy(c))
            /\ ENABLED (admitted("POST /api/admin/taxonomy/categories", NoToken, NoToken)
                        /\ PostCategory(c, <<"a">>))
            /\ ENABLED (admitted("POST /api/admin/taxonomy/sections", NoToken, NoToken)
                        /\ PostSection(c, <<"a">>, <<"s">>, FALSE))
            /\ nextFile <= MaxAssets
               => ENABLED (admitted("POST /api/admin/assets", NoToken, NoToken)
                           /\ \E file \in PngIn : UploadFile(c, file))
            /\ ENABLED (admitted("GET /api/admin/assets", NoToken, NoToken)
                        /\ GetAdminAssets(c))
            /\ \A id \in AssetIds :
                  /\ ENABLED (admitted("PATCH /api/admin/assets/:id", NoToken, NoToken)
                              /\ PatchAsset(c, id, TRUE, <<"a">>, FALSE, Empty))
                  /\ ENABLED (admitted("DELETE /api/admin/assets/:id", NoToken, NoToken)
                              /\ DeleteAssetFind(c, id))
            /\ ENABLED (admitted("GET /api/admin/stats", NoToken, NoToken) /\ AdminStats))

\* No user exists, and an asset has been uploaded, filed under a category the
\* taxonomy now holds, and edited, the edit answered 200.
C28_Witness ==
    /\ users = {}
    /\ assets # {}
    /\ files # {}
    /\ taxonomies # <<>>
    /\ taxonomies[1].categories # <<>>
    /\ admResp.kind = "PATCH /api/admin/assets/:id"
    /\ admResp.status = 200

----------------------------------------------------------------------------
(* Claims on detectPngHasAlpha (checked under FairPng) *)

RECURSIVE meetsAlpha(_, _)
\* Scanning the complete chunks of the buffer in order from offset, up to
\* IEND: an IHDR of length at least 13 with colour type 4 or 6, or a tRNS
\* chunk, is met.  A chunk is of a type when its four type bytes are those
\* of the type.
meetsAlpha(buffer, offset) ==
    IF offset + 12 > Len(buffer) THEN FALSE
    ELSE LET length == readUInt32BE(buffer, offset)
             type == subarray(buffer, offset + 4, offset + 8)
         IN IF offset + 12 + length > Len(buffer) THEN FALSE
            ELSE IF type = IHDR /\ length >= 13 /\ buffer[offset + 8 + 9 + 1] \in {4, 6}
            THEN TRUE
            ELSE IF type = tRNS THEN TRUE
            ELSE IF type = IEND THEN FALSE
            ELSE meetsAlpha(buffer, offset + 12 + length)

\* C29: detectPngHasAlpha returns on every buffer and reads no byte past the
\* end of the buffer; a run of the loop body that goes on moves the offset
\* forward by at least 12 and never past the end; and it returns false for a
\* buffer of fewer than 24 bytes or without the signature, and otherwise true
\* exactly when the scan of the complete chunks up to IEND meets an IHDR of
\* length at least 13 with colour type 4 or 6, or a tRNS chunk.
C29_PngScan ==
    /\ <>(png.pc = "returned")
    /\ [](png.hi <= Len(png.buffer) /\ png.offset <= Len(png.buffer))
    /\ [][png'.offset # png.offset
           => /\ png'.offset >= png.offset + 12 \/ png.pc = "called"
              /\ png'.offset <= Len(png.buffer)]_vars
    /\ [](png.pc = "returned"
           => png.result = (/\ Len(png.buffer) >= 24
                            /\ subarray(png.buffer, 0, 8) = sig
                            /\ meetsAlpha(png.buffer, 8)))

\* The last answer of an auth route is that of a logout.
loggedOut == authResp.status = 200 /\ authResp.cookie = NoToken

\* C30: the server keeps no session state.  A logout reads and writes no
\* record, and its answer clears the cookie; requireAuth passes a request on
\* exactly when the token it reads (the cookie, or with no cookie the Bearer
\* token) was signed by the server for a user record that exists; and so,
\* after a logout, the token of every user that exists is accepted as the
\* cookie and as the Bearer token, and is not looked at when the cookie is
\* another token.  Tokens here do not expire.
C30_NoSessionState ==
    /\ [][AuthLogout => /\ authResp'.cookie = NoToken /\ authResp'.status = 200
                        /\ UNCHANGED <<users, nextUid, plots, feedback, reqs, auth>>]_vars
    /\ [][\A c \in Conns, cookie \in Tokens, bearer \in Tokens :
              RequireAuth(c, cookie, bearer)
              => LET token == IF cookie # NoToken THEN cookie ELSE bearer
                 IN /\ resp'.token = token
                    /\ (resp'.status = 0)
                          = (token.t = "signed" /\ \E u \in users : u._id = token.uid)
                    /\ resp'.status \in {0, 401}]_vars
    /\ [](loggedOut
           => \A u \in users :
                 /\ authenticated(users, Signed(u._id), NoToken)
                 /\ authenticated(users, NoToken, Signed(u._id))
                 /\ authenticated(users, Signed(u._id), BadToken)
                 /\ ~authenticated(users, BadToken, Signed(u._id)))

\* After a logout, with no sign-in answered or begun since, a request whose
\* token is one signed for a user at sign-in has passed requireAuth.
C30_Witness ==
    /\ loggedOut
    /\ \A c \in Conns : auth[c].pc = "idle"
    /\ resp.kind = "requireAuth"
    /\ resp.status = 0
    /\ resp.token.t = "signed"
    /\ \E c \in Conns : reqs[c].pc = "route" /\ reqs[c].user = resp.token.uid

====
